---- MODULE Spec2Model ----
(***************************************************************************)
(* State-machine model of the real-time game service of src/src/index.ts:  *)
(* socket handshake, matchmaking rooms, the async createRoom / joinRoom    *)
(* handlers (one step per synchronous segment between awaits), the match   *)
(* handlers drawCards / playCard / attack / endTurn and disconnect; and of *)
(* the HTTP middleware of src/src/middlewares/auth.middleware.ts.          *)
(***************************************************************************)
EXTENDS Integers, Sequences, FiniteSets, TLC

\* ------------------------------------------------------------------------
\* Bounds of the model
\* ------------------------------------------------------------------------
\* number of rooms createRoom allocates in a run of Spec
MaxRooms == 1
\* number of rooms createRoom allocates in a run of SpecLobby
LobbyMaxRooms == 2

\* ------------------------------------------------------------------------
\* Program constants
\* ------------------------------------------------------------------------
DECK_SIZE == 10
HAND_MAX == 5
WIN_SCORE == 3
FirstRoomId == 1

\* ------------------------------------------------------------------------
\* JavaScript values that reach the handlers in payloads
\* ------------------------------------------------------------------------
JSUndefined == [t |-> "undefined"]
JSNull == [t |-> "null"]
JSNaN == [t |-> "NaN"]
JSNum(n) == [t |-> "number", n |-> n]
JSStr(s) == [t |-> "string", s |-> s]
\* the number n + 0.5 (a number that is not an integer); n is its floor
JSFraction(n) == [t |-> "fraction", n |-> n]

\* Number("<string>") for the strings the model sends
StringToNumber(s) ==
  CASE s = "" -> JSNum(0)
    [] s = "0" -> JSNum(0)
    [] s = "1" -> JSNum(1)
    [] s = "2" -> JSNum(2)
    [] s = "3" -> JSNum(3)
    [] OTHER -> JSNaN

\* Number(v)
ToNumber(v) ==
  CASE v.t = "undefined" -> JSNaN
    [] v.t = "null" -> JSNum(0)
    [] v.t = "NaN" -> JSNaN
    [] v.t = "number" -> v
    [] v.t = "fraction" -> v
    [] v.t = "string" -> StringToNumber(v.s)

\* !v is FALSE
Truthy(v) ==
  CASE v.t = "undefined" -> FALSE
    [] v.t = "null" -> FALSE
    [] v.t = "NaN" -> FALSE
    [] v.t = "number" -> v.n # 0
    [] v.t = "fraction" -> TRUE
    [] v.t = "string" -> v.s # ""
    [] v.t = "chars" -> v.c # <<>>

IsNaN(v) == v.t = "NaN"

\* ------------------------------------------------------------------------
\* Sessions, users, tokens
\* ------------------------------------------------------------------------
Sockets == {"s1", "s2", "s3"}
NoSocket == "undefined"
NoUser == 0
Users == {1, 2}
Tokens == {"none", "bad", "t1", "t2"}

\* jwt.verify(token, secret): the decoded userId, or NoUser when it throws
jwtVerify(token) ==
  CASE token = "t1" -> 1
    [] token = "t2" -> 2
    [] OTHER -> NoUser

UserName(u) == IF u = 1 THEN "ash" ELSE "misty"

\* ------------------------------------------------------------------------
\* Card catalogue and type chart
\* ------------------------------------------------------------------------
CardTable ==
  [c \in {1, 2, 3} |->
     CASE c = 1 -> [id |-> 1, name |-> "Charmander", hp |-> 2, attack |-> 1, type |-> "Fire"]
       [] c = 2 -> [id |-> 2, name |-> "Bulbasaur", hp |-> 2, attack |-> 2, type |-> "Grass"]
       [] c = 3 -> [id |-> 3, name |-> "Squirtle", hp |-> 3, attack |-> 2, type |-> "Water"]]

StrongAgainst(a, d) ==
  \/ a = "Fire" /\ d = "Grass"
  \/ a = "Grass" /\ d = "Water"
  \/ a = "Water" /\ d = "Fire"

Max(a, b) == IF a >= b THEN a ELSE b

\* damage(attack, attackerType, defenderType): attack x multiplier, floored, at least 0
calculateDamage(attack, attackerType, defenderType) ==
  IF StrongAgainst(attackerType, defenderType) THEN Max(0, 2 * attack)
  ELSE IF StrongAgainst(defenderType, attackerType) THEN Max(0, attack \div 2)
  ELSE Max(0, attack)

\* ------------------------------------------------------------------------
\* Deck repository (prisma.deck)
\* ------------------------------------------------------------------------
DeckIds == {1, 2}
DbNull == [t |-> "null"]

InitialDecks ==
  [d \in DeckIds |->
     IF d = 1
       THEN [id |-> 1, userId |-> 1, username |-> UserName(1), name |-> "Starter Deck",
             deckCards |-> <<1, 1, 1, 1, 1, 1, 1, 1, 1, 1>>]
       ELSE [id |-> 2, userId |-> 2, username |-> UserName(2), name |-> "Starter Deck",
             deckCards |-> <<2, 2, 2, 2, 2, 2, 2, 2, 2, 2>>]]

\* ------------------------------------------------------------------------
\* HTTP clients and the user repository (prisma.user)
\* ------------------------------------------------------------------------
Clients == {"c1", "c2"}
ApiIdle == [pc |-> "idle"]

\* bcrypt.hash(password, 10), and bcrypt.compare(password, hash)
bcryptHash(password) == [t |-> "bcrypt", of |-> password]
bcryptCompare(password, hash) == hash = bcryptHash(password)

AshEmail == <<"a", "@", "x", ".", "i", "o">>
AshPassword == <<"p", "i", "k", "a", "1", "2">>
InitialUsers ==
  <<[id |-> 1, email |-> AshEmail, username |-> "ash", password |-> bcryptHash(AshPassword)]>>

VARIABLES
  conn,        \* socket id -> "new" | "open" | "closed" | "rejected"
  socketUser,  \* socket id -> socket.user.userId (NoUser before the handshake)
  rooms,       \* keys of the rooms Map, in insertion order
  roomObj,     \* the MatchmakingRoom objects, by id (Map values and handler locals)
  gameStates,  \* the gameStates Map: room id -> GameState
  nextRoomId,  \* the room id counter
  pending,     \* socket id -> the async handler of that socket suspended on an await
  decks,       \* deck repository: deck id -> deck row or DbNull
  out,         \* emit calls of the last handler step, in order
  http,        \* HTTP requests authenticateToken has handled, in order
  api,         \* HTTP client -> its request to a controller: idle, suspended on an await, answered
  users        \* user repository (prisma.user): the rows, in order of creation

vars == <<conn, socketUser, rooms, roomObj, gameStates, nextRoomId, pending, decks, out, http,
          api, users>>

Idle == [op |-> "idle"]

\* ------------------------------------------------------------------------
\* Helpers
\* ------------------------------------------------------------------------
SeqToSet(s) == {s[i] : i \in 1..Len(s)}

Msg(to, event, payload) == [to |-> to, event |-> event, payload |-> payload]
ErrorMsg(s, ev, m) == Msg(s, "error", [event |-> ev, message |-> m])
Everyone == "*"

IsConnected(s) == s \in Sockets /\ conn[s] = "open"

\* room objects still referenced by the Map or by a suspended joinRoom handler
Live(rms, pend) ==
  SeqToSet(rms) \cup {pend[s].roomId : s \in {x \in Sockets : pend[x].op = "joinRoom"}}
Collect(objs, rms, pend) == [r \in (DOMAIN objs) \cap Live(rms, pend) |-> objs[r]]

serializeRoom(room) ==
  [id |-> room.id, hostUsername |-> room.hostUsername, hostUserId |-> room.hostUserId]

RECURSIVE MapSerialize(_, _)
MapSerialize(ids, objs) ==
  IF ids = <<>> THEN <<>>
  ELSE <<serializeRoom(objs[Head(ids)])>> \o MapSerialize(Tail(ids), objs)

\* getWaitingRooms without the filter on the status
getWaitingRoomsAll(rms, objs) == MapSerialize(rms, objs)

getWaitingRooms(rms, objs) ==
  LET IsWaiting(id) == objs[id].status = "waiting"
  IN MapSerialize(SelectSeq(rms, IsWaiting), objs)

\* a swap that loses out[i]: out[i] = out[j] alone
SwapCopy(a, i, j) == [a EXCEPT ![i] = a[j]]

Swap(a, i, j) == [a EXCEPT ![i] = a[j], ![j] = a[i]]

\* every array the Fisher-Yates loop can leave in `out`, for each choice of j
RECURSIVE ShuffleFrom(_, _)
ShuffleFrom(S, i) ==
  IF i < 2 THEN S
  ELSE ShuffleFrom({Swap(o, i, j) : o \in S, j \in 1..i}, i - 1)

shuffle(array) == ShuffleFrom({array}, Len(array))

toGameCards(deckCards) == [i \in 1..Len(deckCards) |-> CardTable[deckCards[i]]]

\* prisma.deck.findUnique({where: {id}})
findUnique(id) == IF id \in DeckIds THEN decks[id] ELSE DbNull

NoCard == [t |-> "null"]

\* buildGameStateView whose guest branch copies the host's hand
buildGameStateViewHostHand(roomId, state, role) ==
  [roomId |-> roomId,
   myHand |-> state.hostHand,
   myActive |-> IF role = "host" THEN state.hostActive ELSE state.guestActive,
   myDeckCount |-> IF role = "host" THEN Len(state.hostDeck) ELSE Len(state.guestDeck),
   myScore |-> IF role = "host" THEN state.hostScore ELSE state.guestScore,
   opponentActive |-> IF role = "host" THEN state.guestActive ELSE state.hostActive,
   opponentDeckCount |-> IF role = "host" THEN Len(state.guestDeck) ELSE Len(state.hostDeck),
   opponentScore |-> IF role = "host" THEN state.guestScore ELSE state.hostScore,
   currentPlayerSocketId |-> state.currentPlayerSocketId]

buildGameStateView(roomId, state, role) ==
  IF role = "host"
    THEN [roomId |-> roomId,
          myHand |-> state.hostHand,
          myActive |-> state.hostActive,
          myDeckCount |-> Len(state.hostDeck),
          myScore |-> state.hostScore,
          opponentActive |-> state.guestActive,
          opponentDeckCount |-> Len(state.guestDeck),
          opponentScore |-> state.guestScore,
          currentPlayerSocketId |-> state.currentPlayerSocketId]
    ELSE [roomId |-> roomId,
          myHand |-> state.guestHand,
          myActive |-> state.guestActive,
          myDeckCount |-> Len(state.guestDeck),
          myScore |-> state.guestScore,
          opponentActive |-> state.hostActive,
          opponentDeckCount |-> Len(state.hostDeck),
          opponentScore |-> state.hostScore,
          currentPlayerSocketId |-> state.currentPlayerSocketId]

\* the emit calls of emitGameStateUpdated(roomId) over the given Maps
emitGameStateUpdated(roomId, rms, objs, gs) ==
  IF \/ roomId \notin SeqToSet(rms)
     \/ roomId \notin DOMAIN gs
     \/ objs[roomId].guestSocketId = NoSocket
    THEN <<>>
  ELSE IF ~IsConnected(objs[roomId].hostSocketId) \/ ~IsConnected(objs[roomId].guestSocketId)
    THEN <<>>
  ELSE <<Msg(objs[roomId].hostSocketId, "gameStateUpdated",
             buildGameStateView(roomId, gs[roomId], "host")),
         Msg(objs[roomId].guestSocketId, "gameStateUpdated",
             buildGameStateView(roomId, gs[roomId], "guest"))>>

\* ------------------------------------------------------------------------
\* Initial state
\* ------------------------------------------------------------------------
Init ==
  /\ conn = [s \in Sockets |-> "new"]
  /\ socketUser = [s \in Sockets |-> NoUser]
  /\ rooms = <<>>
  /\ roomObj = <<>>
  /\ gameStates = <<>>
  /\ nextRoomId = FirstRoomId
  /\ pending = [s \in Sockets |-> Idle]
  /\ decks = InitialDecks
  /\ out = <<>>
  /\ http = <<>>
  /\ api = [c \in Clients |-> ApiIdle]
  /\ users = InitialUsers

\* ------------------------------------------------------------------------
\* Handshake (io.use) and connection
\* ------------------------------------------------------------------------
\* a handshake that only looks for the presence of a token
ConnectUnverified(s, token) ==
  /\ conn[s] = "new"
  /\ IF token = "none"
       THEN /\ conn' = [conn EXCEPT ![s] = "rejected"]
            /\ UNCHANGED socketUser
       ELSE /\ conn' = [conn EXCEPT ![s] = "open"]
            /\ socketUser' = [socketUser EXCEPT ![s] = jwtVerify(token)]
  /\ out' = <<>>
  /\ UNCHANGED <<rooms, roomObj, gameStates, nextRoomId, pending, decks, http, api, users>>

Connect(s, token) ==
  /\ conn[s] = "new"
  /\ IF token = "none" \/ jwtVerify(token) = NoUser
       THEN /\ conn' = [conn EXCEPT ![s] = "rejected"]
            /\ UNCHANGED socketUser
       ELSE /\ conn' = [conn EXCEPT ![s] = "open"]
            /\ socketUser' = [socketUser EXCEPT ![s] = jwtVerify(token)]
  /\ out' = <<>>
  /\ UNCHANGED <<rooms, roomObj, gameStates, nextRoomId, pending, decks, http, api, users>>

GetRooms(s) ==
  /\ IsConnected(s)
  /\ out' = <<Msg(s, "roomsList", getWaitingRooms(rooms, roomObj))>>
  /\ UNCHANGED <<conn, socketUser, rooms, roomObj, gameStates, nextRoomId, pending, decks, http, api, users>>

\* ------------------------------------------------------------------------
\* Map helpers
\* ------------------------------------------------------------------------
MapSet(m, k, v) == [x \in (DOMAIN m) \cup {k} |-> IF x = k THEN v ELSE m[x]]
MapDelete(m, K) == [x \in (DOMAIN m) \ K |-> m[x]]
SeqDelete(seq, K) == LET Keep(x) == x \notin K IN SelectSeq(seq, Keep)

PendingCreates == {x \in Sockets : pending[x].op = "createRoom"}

\* ------------------------------------------------------------------------
\* createRoom: the segment before the await, and the segment after it
\* ------------------------------------------------------------------------
CreateRoomCall(s, deckId) ==
  /\ IsConnected(s)
  /\ pending[s] = Idle
  /\ LET deckIdNumber == ToNumber(deckId) IN
       IF ~Truthy(deckId) \/ IsNaN(deckIdNumber)
         THEN /\ out' = <<ErrorMsg(s, "createRoom", "Deck ID invalide")>>
              /\ UNCHANGED pending
         ELSE /\ pending' = [pending EXCEPT ![s] =
                               [op |-> "createRoom", deckId |-> deckIdNumber.n]]
              /\ out' = <<>>
  /\ UNCHANGED <<conn, socketUser, rooms, roomObj, gameStates, nextRoomId, decks, http, api, users>>

\* CreateRoomResume without the test of the deck's owner
CreateRoomResumeAnyOwner(s, dbFails) ==
  /\ pending[s].op = "createRoom"
  /\ pending' = [pending EXCEPT ![s] = Idle]
  /\ LET deck == findUnique(pending[s].deckId)
         Fail(m) == /\ out' = <<ErrorMsg(s, "createRoom", m)>>
                    /\ UNCHANGED <<rooms, roomObj, nextRoomId>>
     IN
       IF dbFails THEN Fail("Erreur lors de la creation de la room")
       ELSE IF deck = DbNull THEN Fail("Deck introuvable")
       ELSE IF Len(deck.deckCards) # DECK_SIZE
         THEN Fail("Le deck doit contenir exactement 10 cartes")
       ELSE
         LET roomId == nextRoomId
             room == [id |-> roomId,
                      status |-> "waiting",
                      hostSocketId |-> s,
                      hostUserId |-> socketUser[s],
                      hostUsername |-> deck.username,
                      hostDeckId |-> deck.id,
                      guestSocketId |-> NoSocket,
                      guestUserId |-> NoUser,
                      guestUsername |-> "undefined",
                      guestDeckId |-> 0]
         IN /\ nextRoomId' = nextRoomId + 1
            /\ rooms' = Append(rooms, roomId)
            /\ roomObj' = MapSet(roomObj, roomId, room)
            /\ out' = <<Msg(s, "roomCreated", serializeRoom(room)),
                        Msg(Everyone, "roomsListUpdated",
                            getWaitingRooms(rooms', roomObj'))>>
  /\ UNCHANGED <<conn, socketUser, gameStates, decks, http, api, users>>

\* CreateRoomResume taking the room id from the size of the registry (rooms.size + 1)
CreateRoomResumeSizeId(s, dbFails) ==
  /\ pending[s].op = "createRoom"
  /\ pending' = [pending EXCEPT ![s] = Idle]
  /\ LET deck == findUnique(pending[s].deckId)
         Fail(m) == /\ out' = <<ErrorMsg(s, "createRoom", m)>>
                    /\ UNCHANGED <<rooms, roomObj, nextRoomId>>
     IN
       IF dbFails THEN Fail("Erreur lors de la creation de la room")
       ELSE IF deck = DbNull THEN Fail("Deck introuvable")
       ELSE IF deck.userId # socketUser[s]
         THEN Fail("Ce deck n'appartient pas a l'utilisateur connecte")
       ELSE IF Len(deck.deckCards) # DECK_SIZE
         THEN Fail("Le deck doit contenir exactement 10 cartes")
       ELSE
         LET roomId == Len(rooms) + 1
             room == [id |-> roomId,
                      status |-> "waiting",
                      hostSocketId |-> s,
                      hostUserId |-> socketUser[s],
                      hostUsername |-> deck.username,
                      hostDeckId |-> deck.id,
                      guestSocketId |-> NoSocket,
                      guestUserId |-> NoUser,
                      guestUsername |-> "undefined",
                      guestDeckId |-> 0]
         IN /\ nextRoomId' = nextRoomId + 1
            /\ rooms' = Append(rooms, roomId)
            /\ roomObj' = MapSet(roomObj, roomId, room)
            /\ out' = <<Msg(s, "roomCreated", serializeRoom(room)),
                        Msg(Everyone, "roomsListUpdated",
                            getWaitingRooms(rooms', roomObj'))>>
  /\ UNCHANGED <<conn, socketUser, gameStates, decks, http, api, users>>

CreateRoomResume(s, dbFails) ==
  /\ pending[s].op = "createRoom"
  /\ pending' = [pending EXCEPT ![s] = Idle]
  /\ LET deck == findUnique(pending[s].deckId)
         Fail(m) == /\ out' = <<ErrorMsg(s, "createRoom", m)>>
                    /\ UNCHANGED <<rooms, roomObj, nextRoomId>>
     IN
       IF dbFails THEN Fail("Erreur lors de la creation de la room")
       ELSE IF deck = DbNull THEN Fail("Deck introuvable")
       ELSE IF deck.userId # socketUser[s]
         THEN Fail("Ce deck n'appartient pas a l'utilisateur connecte")
       ELSE IF Len(deck.deckCards) # DECK_SIZE
         THEN Fail("Le deck doit contenir exactement 10 cartes")
       ELSE
         LET roomId == nextRoomId
             room == [id |-> roomId,
                      status |-> "waiting",
                      hostSocketId |-> s,
                      hostUserId |-> socketUser[s],
                      hostUsername |-> deck.username,
                      hostDeckId |-> deck.id,
                      guestSocketId |-> NoSocket,
                      guestUserId |-> NoUser,
                      guestUsername |-> "undefined",
                      guestDeckId |-> 0]
         IN /\ nextRoomId' = nextRoomId + 1
            /\ rooms' = Append(rooms, roomId)
            /\ roomObj' = MapSet(roomObj, roomId, room)
            /\ out' = <<Msg(s, "roomCreated", serializeRoom(room)),
                        Msg(Everyone, "roomsListUpdated",
                            getWaitingRooms(rooms', roomObj'))>>
  /\ UNCHANGED <<conn, socketUser, gameStates, decks, http, api, users>>

\* ------------------------------------------------------------------------
\* joinRoom: the segment before the first await, the segment between the
\* two awaits, and the segment after the second await
\* ------------------------------------------------------------------------
JoinRoomCall(s, roomId, deckId) ==
  /\ IsConnected(s)
  /\ pending[s] = Idle
  /\ LET roomIdNumber == ToNumber(roomId)
         deckIdNumber == ToNumber(deckId)
         Fail(m) == /\ out' = <<ErrorMsg(s, "joinRoom", m)>>
                    /\ UNCHANGED <<pending, roomObj>>
     IN
       IF ~Truthy(roomId) \/ IsNaN(roomIdNumber) THEN Fail("Room ID invalide")
       ELSE IF ~Truthy(deckId) \/ IsNaN(deckIdNumber) THEN Fail("Deck ID invalide")
       ELSE IF roomIdNumber.n \notin SeqToSet(rooms) THEN Fail("La room n'existe pas")
       ELSE IF \/ roomObj[roomIdNumber.n].status # "waiting"
               \/ roomObj[roomIdNumber.n].guestSocketId # NoSocket
         THEN Fail("La room est deja complete")
       ELSE /\ pending' = [pending EXCEPT ![s] =
                             [op |-> "joinRoom", pc |-> "deck",
                              roomId |-> roomIdNumber.n, deckId |-> deckIdNumber.n,
                              deck |-> DbNull]]
            /\ roomObj' = Collect(roomObj, rooms, pending')
            /\ out' = <<>>
  /\ UNCHANGED <<conn, socketUser, rooms, gameStates, nextRoomId, decks, http, api, users>>

\* JoinRoomResumeDeck that does not record the guest's deck id
JoinRoomResumeDeckNoDeckId(s, dbFails) ==
  /\ pending[s].op = "joinRoom"
  /\ pending[s].pc = "deck"
  /\ LET r == pending[s].roomId
         room == roomObj[r]
         deck == findUnique(pending[s].deckId)
         Fail(m) == /\ out' = <<ErrorMsg(s, "joinRoom", m)>>
                    /\ pending' = [pending EXCEPT ![s] = Idle]
                    /\ roomObj' = Collect(roomObj, rooms, pending')
                    /\ UNCHANGED rooms
     IN
       IF dbFails THEN Fail("Erreur lors de la jonction de la room")
       ELSE IF deck = DbNull THEN Fail("Deck introuvable")
       ELSE IF deck.userId # socketUser[s]
         THEN Fail("Ce deck n'appartient pas a l'utilisateur connecte")
       ELSE IF Len(deck.deckCards) # DECK_SIZE
         THEN Fail("Le deck doit contenir exactement 10 cartes")
       ELSE IF ~IsConnected(room.hostSocketId)
         THEN /\ pending' = [pending EXCEPT ![s] = Idle]
              /\ rooms' = SeqDelete(rooms, {r})
              /\ roomObj' = Collect(roomObj, rooms', pending')
              /\ out' = <<ErrorMsg(s, "joinRoom", "Le joueur hote est deconnecte"),
                          Msg(Everyone, "roomsListUpdated",
                              getWaitingRooms(rooms', roomObj'))>>
       ELSE /\ pending' = [pending EXCEPT ![s] =
                             [pending[s] EXCEPT !.pc = "hostDeck", !.deck = deck]]
            /\ roomObj' = [roomObj EXCEPT ![r] =
                             [room EXCEPT !.status = "in-game",
                                          !.guestSocketId = s,
                                          !.guestUserId = socketUser[s],
                                          !.guestUsername = deck.username]]
            /\ out' = <<>>
            /\ UNCHANGED rooms
  /\ UNCHANGED <<conn, socketUser, gameStates, nextRoomId, decks, http, api, users>>

JoinRoomResumeDeck(s, dbFails) ==
  /\ pending[s].op = "joinRoom"
  /\ pending[s].pc = "deck"
  /\ LET r == pending[s].roomId
         room == roomObj[r]
         deck == findUnique(pending[s].deckId)
         Fail(m) == /\ out' = <<ErrorMsg(s, "joinRoom", m)>>
                    /\ pending' = [pending EXCEPT ![s] = Idle]
                    /\ roomObj' = Collect(roomObj, rooms, pending')
                    /\ UNCHANGED rooms
     IN
       IF dbFails THEN Fail("Erreur lors de la jonction de la room")
       ELSE IF deck = DbNull THEN Fail("Deck introuvable")
       ELSE IF deck.userId # socketUser[s]
         THEN Fail("Ce deck n'appartient pas a l'utilisateur connecte")
       ELSE IF Len(deck.deckCards) # DECK_SIZE
         THEN Fail("Le deck doit contenir exactement 10 cartes")
       ELSE IF ~IsConnected(room.hostSocketId)
         THEN /\ pending' = [pending EXCEPT ![s] = Idle]
              /\ rooms' = SeqDelete(rooms, {r})
              /\ roomObj' = Collect(roomObj, rooms', pending')
              /\ out' = <<ErrorMsg(s, "joinRoom", "Le joueur hote est deconnecte"),
                          Msg(Everyone, "roomsListUpdated",
                              getWaitingRooms(rooms', roomObj'))>>
       ELSE /\ pending' = [pending EXCEPT ![s] =
                             [pending[s] EXCEPT !.pc = "hostDeck", !.deck = deck]]
            /\ roomObj' = [roomObj EXCEPT ![r] =
                             [room EXCEPT !.status = "in-game",
                                          !.guestSocketId = s,
                                          !.guestUserId = socketUser[s],
                                          !.guestUsername = deck.username,
                                          !.guestDeckId = deck.id]]
            /\ out' = <<>>
            /\ UNCHANGED rooms
  /\ UNCHANGED <<conn, socketUser, gameStates, nextRoomId, decks, http, api, users>>

NewGameState(hostDeck, guestDeck, hostSocketId) ==
  [hostDeck |-> hostDeck,
   hostHand |-> <<>>,
   hostActive |-> NoCard,
   hostScore |-> 0,
   guestDeck |-> guestDeck,
   guestHand |-> <<>>,
   guestActive |-> NoCard,
   guestScore |-> 0,
   currentPlayerSocketId |-> hostSocketId]

GameStartedPayload(room, role) ==
  LET host == [role |-> "host", userId |-> room.hostUserId, deckId |-> room.hostDeckId]
      guest == [role |-> "guest", userId |-> room.guestUserId, deckId |-> room.guestDeckId]
  IN IF role = "host"
       THEN [roomId |-> room.id, you |-> host, opponent |-> guest]
       ELSE [roomId |-> room.id, you |-> guest, opponent |-> host]

JoinRoomResumeHostDeck(s, dbFails) ==
  /\ pending[s].op = "joinRoom"
  /\ pending[s].pc = "hostDeck"
  /\ pending' = [pending EXCEPT ![s] = Idle]
  /\ LET r == pending[s].roomId
         room == roomObj[r]
         deck == pending[s].deck
         hostDeckData == findUnique(room.hostDeckId)
         Fail(m) == /\ out' = <<ErrorMsg(s, "joinRoom", m)>>
                    /\ UNCHANGED gameStates
     IN
       /\ IF dbFails THEN Fail("Erreur lors de la jonction de la room")
          ELSE IF hostDeckData = DbNull THEN Fail("Deck du host invalide")
          ELSE IF Len(hostDeckData.deckCards) # DECK_SIZE THEN Fail("Deck du host invalide")
          ELSE \E hostDeck \in shuffle(toGameCards(hostDeckData.deckCards)),
                  guestDeck \in shuffle(toGameCards(deck.deckCards)) :
                 /\ gameStates' = MapSet(gameStates, r,
                                         NewGameState(hostDeck, guestDeck, room.hostSocketId))
                 /\ out' = <<Msg(room.hostSocketId, "gameStarted",
                                 GameStartedPayload(room, "host")),
                             Msg(s, "gameStarted", GameStartedPayload(room, "guest")),
                             Msg(Everyone, "roomsListUpdated",
                                 getWaitingRooms(rooms, roomObj))>>
       /\ roomObj' = Collect(roomObj, rooms, pending')
  /\ UNCHANGED <<conn, socketUser, rooms, nextRoomId, decks, http, api, users>>

\* ------------------------------------------------------------------------
\* Match handlers
\* ------------------------------------------------------------------------
\* a JavaScript relational comparison of a payload value with an integer n
\* (for x = k + 0.5: x < n iff k < n, and x >= n iff k >= n)
JSLess(v, n) == LET x == ToNumber(v) IN ~IsNaN(x) /\ x.n < n
JSGreaterEq(v, n) == LET x == ToNumber(v) IN ~IsNaN(x) /\ x.n >= n

\* ToIntegerOrInfinity(v), as Array.prototype.splice applies it to its start:
\* NaN gives 0, a number is truncated towards zero
ToIntegerOrInfinity(v) ==
  LET x == ToNumber(v)
  IN IF IsNaN(x) THEN 0
     ELSE IF x.t = "fraction" /\ x.n < 0 THEN x.n + 1
     ELSE x.n

\* !card
NoActive(card) == card = NoCard \/ card = JSUndefined

\* GameFail sending the error to every session (io.emit instead of socket.emit)
GameFailBroadcast(s, ev, m) ==
  /\ out' = <<ErrorMsg(Everyone, ev, m)>>
  /\ UNCHANGED <<conn, socketUser, rooms, roomObj, gameStates, nextRoomId, pending, decks, http, api, users>>

GameFail(s, ev, m) ==
  /\ out' = <<ErrorMsg(s, ev, m)>>
  /\ UNCHANGED <<conn, socketUser, rooms, roomObj, gameStates, nextRoomId, pending, decks, http, api, users>>

NotStarted(r) ==
  \/ r \notin SeqToSet(rooms)
  \/ r \notin DOMAIN gameStates
  \/ roomObj[r].guestSocketId = NoSocket

\* DrawLoop with `if` in place of `while`: at most one card is moved
DrawLoopOneCard(deck, hand) ==
  IF Len(hand) < HAND_MAX /\ Len(deck) > 0
    THEN [deck |-> SubSeq(deck, 1, Len(deck) - 1), hand |-> Append(hand, deck[Len(deck)])]
    ELSE [deck |-> deck, hand |-> hand]

\* DrawLoop taking the first card of the deck (deck.shift()) instead of the last
RECURSIVE DrawLoopFromHead(_, _)
DrawLoopFromHead(deck, hand) ==
  IF Len(hand) < HAND_MAX /\ Len(deck) > 0
    THEN DrawLoopFromHead(Tail(deck), Append(hand, Head(deck)))
    ELSE [deck |-> deck, hand |-> hand]

\* DrawLoop with the hand test off by one (hand.length <= 5)
RECURSIVE DrawLoopOffByOne(_, _)
DrawLoopOffByOne(deck, hand) ==
  IF Len(hand) <= HAND_MAX /\ Len(deck) > 0
    THEN DrawLoopOffByOne(SubSeq(deck, 1, Len(deck) - 1), Append(hand, deck[Len(deck)]))
    ELSE [deck |-> deck, hand |-> hand]

\* while (hand.length < 5 && deck.length > 0) hand.push(deck.pop())
RECURSIVE DrawLoop(_, _)
DrawLoop(deck, hand) ==
  IF Len(hand) < HAND_MAX /\ Len(deck) > 0
    THEN DrawLoop(SubSeq(deck, 1, Len(deck) - 1), Append(hand, deck[Len(deck)]))
    ELSE [deck |-> deck, hand |-> hand]

DrawCards(s, roomId) ==
  /\ IsConnected(s)
  /\ LET n == ToNumber(roomId) IN
       IF ~Truthy(roomId) \/ IsNaN(n) THEN GameFail(s, "drawCards", "Room ID invalide")
       ELSE IF NotStarted(n.n)
         THEN GameFail(s, "drawCards", "Room introuvable ou partie non demarree")
       ELSE IF gameStates[n.n].currentPlayerSocketId # s
         THEN GameFail(s, "drawCards", "Ce n'est pas votre tour")
       ELSE
         LET room == roomObj[n.n]
             state == gameStates[n.n]
             isHost == s = room.hostSocketId
             drawn == DrawLoop(IF isHost THEN state.hostDeck ELSE state.guestDeck,
                               IF isHost THEN state.hostHand ELSE state.guestHand)
         IN /\ gameStates' = [gameStates EXCEPT ![n.n] =
                 IF isHost
                   THEN [state EXCEPT !.hostDeck = drawn.deck, !.hostHand = drawn.hand]
                   ELSE [state EXCEPT !.guestDeck = drawn.deck, !.guestHand = drawn.hand]]
            /\ out' = emitGameStateUpdated(n.n, rooms, roomObj, gameStates')
            /\ UNCHANGED <<conn, socketUser, rooms, roomObj, nextRoomId, pending, decks, http, api, users>>

\* Splice1 removing the last element whatever the index (hand.pop())
Splice1Last(hand, start) ==
  IF start < Len(hand)
    THEN [hand |-> SubSeq(hand, 1, Len(hand) - 1), card |-> hand[Len(hand)]]
    ELSE [hand |-> hand, card |-> JSUndefined]

\* Splice1 reading the element without removing it (hand[start] instead of splice)
Splice1Keep(hand, start) ==
  IF start < Len(hand)
    THEN [hand |-> hand, card |-> hand[start + 1]]
    ELSE [hand |-> hand, card |-> JSUndefined]

\* hand.splice(start, 1): the array left and the element removed (undefined if none)
Splice1(hand, start) ==
  IF start < Len(hand)
    THEN [hand |-> SubSeq(hand, 1, start) \o SubSeq(hand, start + 2, Len(hand)),
          card |-> hand[start + 1]]
    ELSE [hand |-> hand, card |-> JSUndefined]

\* PlayCard without the test of the actor's active card
PlayCardOverActive(s, roomId, cardIndex) ==
  /\ IsConnected(s)
  /\ LET n == ToNumber(roomId) IN
       IF ~Truthy(roomId) \/ IsNaN(n) THEN GameFail(s, "playCard", "Room ID invalide")
       ELSE IF cardIndex = JSUndefined \/ JSLess(cardIndex, 0)
         THEN GameFail(s, "playCard", "Index de carte invalide")
       ELSE IF NotStarted(n.n)
         THEN GameFail(s, "playCard", "Room introuvable ou partie non demarree")
       ELSE IF gameStates[n.n].currentPlayerSocketId # s
         THEN GameFail(s, "playCard", "Ce n'est pas votre tour")
       ELSE
         LET room == roomObj[n.n]
             state == gameStates[n.n]
             isHost == s = room.hostSocketId
             hand == IF isHost THEN state.hostHand ELSE state.guestHand
             active == IF isHost THEN state.hostActive ELSE state.guestActive
             sp == Splice1(hand, ToIntegerOrInfinity(cardIndex))
         IN IF JSGreaterEq(cardIndex, Len(hand))
              THEN GameFail(s, "playCard", "Index de carte invalide")
            ELSE
              /\ gameStates' = [gameStates EXCEPT ![n.n] =
                   IF isHost
                     THEN [state EXCEPT !.hostHand = sp.hand, !.hostActive = sp.card]
                     ELSE [state EXCEPT !.guestHand = sp.hand, !.guestActive = sp.card]]
              /\ out' = emitGameStateUpdated(n.n, rooms, roomObj, gameStates')
              /\ UNCHANGED <<conn, socketUser, rooms, roomObj, nextRoomId, pending, decks, http, api, users>>

PlayCard(s, roomId, cardIndex) ==
  /\ IsConnected(s)
  /\ LET n == ToNumber(roomId) IN
       IF ~Truthy(roomId) \/ IsNaN(n) THEN GameFail(s, "playCard", "Room ID invalide")
       ELSE IF cardIndex = JSUndefined \/ JSLess(cardIndex, 0)
         THEN GameFail(s, "playCard", "Index de carte invalide")
       ELSE IF NotStarted(n.n)
         THEN GameFail(s, "playCard", "Room introuvable ou partie non demarree")
       ELSE IF gameStates[n.n].currentPlayerSocketId # s
         THEN GameFail(s, "playCard", "Ce n'est pas votre tour")
       ELSE
         LET room == roomObj[n.n]
             state == gameStates[n.n]
             isHost == s = room.hostSocketId
             hand == IF isHost THEN state.hostHand ELSE state.guestHand
             active == IF isHost THEN state.hostActive ELSE state.guestActive
             sp == Splice1(hand, ToIntegerOrInfinity(cardIndex))
         IN IF active # NoCard
              THEN GameFail(s, "playCard", "Vous avez deja une carte active sur le terrain")
            ELSE IF JSGreaterEq(cardIndex, Len(hand))
              THEN GameFail(s, "playCard", "Index de carte invalide")
            ELSE
              /\ gameStates' = [gameStates EXCEPT ![n.n] =
                   IF isHost
                     THEN [state EXCEPT !.hostHand = sp.hand, !.hostActive = sp.card]
                     ELSE [state EXCEPT !.guestHand = sp.hand, !.guestActive = sp.card]]
              /\ out' = emitGameStateUpdated(n.n, rooms, roomObj, gameStates')
              /\ UNCHANGED <<conn, socketUser, rooms, roomObj, nextRoomId, pending, decks, http, api, users>>

\* Attack that reports a missing defender and hands the turn over all the same
AttackPassesTurnOnMiss(s, roomId) ==
  /\ IsConnected(s)
  /\ LET n == ToNumber(roomId) IN
       IF ~Truthy(roomId) \/ IsNaN(n) THEN GameFail(s, "attack", "Room ID invalide")
       ELSE IF NotStarted(n.n)
         THEN GameFail(s, "attack", "Room introuvable ou partie non demarree")
       ELSE IF gameStates[n.n].currentPlayerSocketId # s
         THEN GameFail(s, "attack", "Ce n'est pas votre tour")
       ELSE
         LET room == roomObj[n.n]
             state == gameStates[n.n]
             isHost == s = room.hostSocketId
             attackerActive == IF isHost THEN state.hostActive ELSE state.guestActive
             defenderActive == IF isHost THEN state.guestActive ELSE state.hostActive
         IN IF NoActive(attackerActive)
              THEN GameFail(s, "attack", "Vous n'avez pas de carte active")
            ELSE IF NoActive(defenderActive)
              THEN /\ out' = <<ErrorMsg(s, "attack", "L'adversaire n'a pas de carte active")>>
                   /\ gameStates' = [gameStates EXCEPT ![n.n].currentPlayerSocketId =
                        IF state.currentPlayerSocketId = room.hostSocketId
                          THEN room.guestSocketId ELSE room.hostSocketId]
                   /\ UNCHANGED <<conn, socketUser, rooms, roomObj, nextRoomId, pending, decks, http, api, users>>
            ELSE
              LET damage == calculateDamage(attackerActive.attack, attackerActive.type,
                                            defenderActive.type)
                  hit == [defenderActive EXCEPT !.hp = defenderActive.hp - damage]
                  ko == hit.hp <= 0
                  afterHit ==
                    IF isHost
                      THEN [state EXCEPT
                              !.guestActive = IF ko THEN NoCard ELSE hit,
                              !.hostScore = IF ko THEN state.hostScore + 1 ELSE state.hostScore]
                      ELSE [state EXCEPT
                              !.hostActive = IF ko THEN NoCard ELSE hit,
                              !.guestScore = IF ko THEN state.guestScore + 1 ELSE state.guestScore]
                  after == [afterHit EXCEPT !.currentPlayerSocketId =
                              IF state.currentPlayerSocketId = room.hostSocketId
                                THEN room.guestSocketId ELSE room.hostSocketId]
                  winner == IF after.hostScore >= WIN_SCORE THEN room.hostSocketId
                            ELSE IF after.guestScore >= WIN_SCORE THEN room.guestSocketId
                            ELSE NoSocket
                  ended == [roomId |-> n.n, winnerSocketId |-> winner,
                            hostScore |-> after.hostScore, guestScore |-> after.guestScore]
                  mutated == [gameStates EXCEPT ![n.n] = after]
              IN /\ IF IsConnected(room.hostSocketId) /\ IsConnected(room.guestSocketId)
                      THEN IF winner # NoSocket
                             THEN /\ out' = <<Msg(room.hostSocketId, "gameEnded", ended),
                                              Msg(room.guestSocketId, "gameEnded", ended)>>
                                  /\ gameStates' = MapDelete(mutated, {n.n})
                             ELSE /\ out' = emitGameStateUpdated(n.n, rooms, roomObj, mutated)
                                  /\ gameStates' = mutated
                      ELSE /\ out' = <<>>
                           /\ gameStates' = mutated
                 /\ UNCHANGED <<conn, socketUser, rooms, roomObj, nextRoomId, pending, decks, http, api, users>>

\* Attack with the knockout test hp < 0 instead of hp <= 0
AttackKoBelowZero(s, roomId) ==
  /\ IsConnected(s)
  /\ LET n == ToNumber(roomId) IN
       IF ~Truthy(roomId) \/ IsNaN(n) THEN GameFail(s, "attack", "Room ID invalide")
       ELSE IF NotStarted(n.n)
         THEN GameFail(s, "attack", "Room introuvable ou partie non demarree")
       ELSE IF gameStates[n.n].currentPlayerSocketId # s
         THEN GameFail(s, "attack", "Ce n'est pas votre tour")
       ELSE
         LET room == roomObj[n.n]
             state == gameStates[n.n]
             isHost == s = room.hostSocketId
             attackerActive == IF isHost THEN state.hostActive ELSE state.guestActive
             defenderActive == IF isHost THEN state.guestActive ELSE state.hostActive
         IN IF NoActive(attackerActive)
              THEN GameFail(s, "attack", "Vous n'avez pas de carte active")
            ELSE IF NoActive(defenderActive)
              THEN GameFail(s, "attack", "L'adversaire n'a pas de carte active")
            ELSE
              LET damage == calculateDamage(attackerActive.attack, attackerActive.type,
                                            defenderActive.type)
                  hit == [defenderActive EXCEPT !.hp = defenderActive.hp - damage]
                  ko == hit.hp < 0
                  afterHit ==
                    IF isHost
                      THEN [state EXCEPT
                              !.guestActive = IF ko THEN NoCard ELSE hit,
                              !.hostScore = IF ko THEN state.hostScore + 1 ELSE state.hostScore]
                      ELSE [state EXCEPT
                              !.hostActive = IF ko THEN NoCard ELSE hit,
                              !.guestScore = IF ko THEN state.guestScore + 1 ELSE state.guestScore]
                  after == [afterHit EXCEPT !.currentPlayerSocketId =
                              IF state.currentPlayerSocketId = room.hostSocketId
                                THEN room.guestSocketId ELSE room.hostSocketId]
                  winner == IF after.hostScore >= WIN_SCORE THEN room.hostSocketId
                            ELSE IF after.guestScore >= WIN_SCORE THEN room.guestSocketId
                            ELSE NoSocket
                  ended == [roomId |-> n.n, winnerSocketId |-> winner,
                            hostScore |-> after.hostScore, guestScore |-> after.guestScore]
                  mutated == [gameStates EXCEPT ![n.n] = after]
              IN /\ IF IsConnected(room.hostSocketId) /\ IsConnected(room.guestSocketId)
                      THEN IF winner # NoSocket
                             THEN /\ out' = <<Msg(room.hostSocketId, "gameEnded", ended),
                                              Msg(room.guestSocketId, "gameEnded", ended)>>
                                  /\ gameStates' = MapDelete(mutated, {n.n})
                             ELSE /\ out' = emitGameStateUpdated(n.n, rooms, roomObj, mutated)
                                  /\ gameStates' = mutated
                      ELSE /\ out' = <<>>
                           /\ gameStates' = mutated
                 /\ UNCHANGED <<conn, socketUser, rooms, roomObj, nextRoomId, pending, decks, http, api, users>>

\* Attack in which the host's active loses 1 hp when it attacks
AttackRecoil(s, roomId) ==
  /\ IsConnected(s)
  /\ LET n == ToNumber(roomId) IN
       IF ~Truthy(roomId) \/ IsNaN(n) THEN GameFail(s, "attack", "Room ID invalide")
       ELSE IF NotStarted(n.n)
         THEN GameFail(s, "attack", "Room introuvable ou partie non demarree")
       ELSE IF gameStates[n.n].currentPlayerSocketId # s
         THEN GameFail(s, "attack", "Ce n'est pas votre tour")
       ELSE
         LET room == roomObj[n.n]
             state == gameStates[n.n]
             isHost == s = room.hostSocketId
             attackerActive == IF isHost THEN state.hostActive ELSE state.guestActive
             defenderActive == IF isHost THEN state.guestActive ELSE state.hostActive
         IN IF NoActive(attackerActive)
              THEN GameFail(s, "attack", "Vous n'avez pas de carte active")
            ELSE IF NoActive(defenderActive)
              THEN GameFail(s, "attack", "L'adversaire n'a pas de carte active")
            ELSE
              LET damage == calculateDamage(attackerActive.attack, attackerActive.type,
                                            defenderActive.type)
                  hit == [defenderActive EXCEPT !.hp = defenderActive.hp - damage]
                  ko == hit.hp <= 0
                  afterHit ==
                    IF isHost
                      THEN [state EXCEPT
                              !.guestActive = IF ko THEN NoCard ELSE hit,
                              !.hostActive = [attackerActive EXCEPT !.hp = attackerActive.hp - 1],
                              !.hostScore = IF ko THEN state.hostScore + 1 ELSE state.hostScore]
                      ELSE [state EXCEPT
                              !.hostActive = IF ko THEN NoCard ELSE hit,
                              !.guestScore = IF ko THEN state.guestScore + 1 ELSE state.guestScore]
                  after == [afterHit EXCEPT !.currentPlayerSocketId =
                              IF state.currentPlayerSocketId = room.hostSocketId
                                THEN room.guestSocketId ELSE room.hostSocketId]
                  winner == IF after.hostScore >= WIN_SCORE THEN room.hostSocketId
                            ELSE IF after.guestScore >= WIN_SCORE THEN room.guestSocketId
                            ELSE NoSocket
                  ended == [roomId |-> n.n, winnerSocketId |-> winner,
                            hostScore |-> after.hostScore, guestScore |-> after.guestScore]
                  mutated == [gameStates EXCEPT ![n.n] = after]
              IN /\ IF IsConnected(room.hostSocketId) /\ IsConnected(room.guestSocketId)
                      THEN IF winner # NoSocket
                             THEN /\ out' = <<Msg(room.hostSocketId, "gameEnded", ended),
                                              Msg(room.guestSocketId, "gameEnded", ended)>>
                                  /\ gameStates' = MapDelete(mutated, {n.n})
                             ELSE /\ out' = emitGameStateUpdated(n.n, rooms, roomObj, mutated)
                                  /\ gameStates' = mutated
                      ELSE /\ out' = <<>>
                           /\ gameStates' = mutated
                 /\ UNCHANGED <<conn, socketUser, rooms, roomObj, nextRoomId, pending, decks, http, api, users>>

Attack(s, roomId) ==
  /\ IsConnected(s)
  /\ LET n == ToNumber(roomId) IN
       IF ~Truthy(roomId) \/ IsNaN(n) THEN GameFail(s, "attack", "Room ID invalide")
       ELSE IF NotStarted(n.n)
         THEN GameFail(s, "attack", "Room introuvable ou partie non demarree")
       ELSE IF gameStates[n.n].currentPlayerSocketId # s
         THEN GameFail(s, "attack", "Ce n'est pas votre tour")
       ELSE
         LET room == roomObj[n.n]
             state == gameStates[n.n]
             isHost == s = room.hostSocketId
             attackerActive == IF isHost THEN state.hostActive ELSE state.guestActive
             defenderActive == IF isHost THEN state.guestActive ELSE state.hostActive
         IN IF NoActive(attackerActive)
              THEN GameFail(s, "attack", "Vous n'avez pas de carte active")
            ELSE IF NoActive(defenderActive)
              THEN GameFail(s, "attack", "L'adversaire n'a pas de carte active")
            ELSE
              LET damage == calculateDamage(attackerActive.attack, attackerActive.type,
                                            defenderActive.type)
                  hit == [defenderActive EXCEPT !.hp = defenderActive.hp - damage]
                  ko == hit.hp <= 0
                  afterHit ==
                    IF isHost
                      THEN [state EXCEPT
                              !.guestActive = IF ko THEN NoCard ELSE hit,
                              !.hostScore = IF ko THEN state.hostScore + 1 ELSE state.hostScore]
                      ELSE [state EXCEPT
                              !.hostActive = IF ko THEN NoCard ELSE hit,
                              !.guestScore = IF ko THEN state.guestScore + 1 ELSE state.guestScore]
                  after == [afterHit EXCEPT !.currentPlayerSocketId =
                              IF state.currentPlayerSocketId = room.hostSocketId
                                THEN room.guestSocketId ELSE room.hostSocketId]
                  winner == IF after.hostScore >= WIN_SCORE THEN room.hostSocketId
                            ELSE IF after.guestScore >= WIN_SCORE THEN room.guestSocketId
                            ELSE NoSocket
                  ended == [roomId |-> n.n, winnerSocketId |-> winner,
                            hostScore |-> after.hostScore, guestScore |-> after.guestScore]
                  mutated == [gameStates EXCEPT ![n.n] = after]
              IN /\ IF IsConnected(room.hostSocketId) /\ IsConnected(room.guestSocketId)
                      THEN IF winner # NoSocket
                             THEN /\ out' = <<Msg(room.hostSocketId, "gameEnded", ended),
                                              Msg(room.guestSocketId, "gameEnded", ended)>>
                                  /\ gameStates' = MapDelete(mutated, {n.n})
                             ELSE /\ out' = emitGameStateUpdated(n.n, rooms, roomObj, mutated)
                                  /\ gameStates' = mutated
                      ELSE /\ out' = <<>>
                           /\ gameStates' = mutated
                 /\ UNCHANGED <<conn, socketUser, rooms, roomObj, nextRoomId, pending, decks, http, api, users>>

\* endTurn without the test of the current player
EndTurnAnyone(s, roomId) ==
  /\ IsConnected(s)
  /\ LET n == ToNumber(roomId) IN
       IF ~Truthy(roomId) \/ IsNaN(n) THEN GameFail(s, "endTurn", "Room ID invalide")
       ELSE IF NotStarted(n.n)
         THEN GameFail(s, "endTurn", "Room introuvable ou partie non demarree")
       ELSE
         LET room == roomObj[n.n]
             state == gameStates[n.n]
         IN /\ gameStates' = [gameStates EXCEPT ![n.n].currentPlayerSocketId =
                 IF state.currentPlayerSocketId = room.hostSocketId
                   THEN room.guestSocketId ELSE room.hostSocketId]
            /\ out' = emitGameStateUpdated(n.n, rooms, roomObj, gameStates')
            /\ UNCHANGED <<conn, socketUser, rooms, roomObj, nextRoomId, pending, decks, http, api, users>>

EndTurn(s, roomId) ==
  /\ IsConnected(s)
  /\ LET n == ToNumber(roomId) IN
       IF ~Truthy(roomId) \/ IsNaN(n) THEN GameFail(s, "endTurn", "Room ID invalide")
       ELSE IF NotStarted(n.n)
         THEN GameFail(s, "endTurn", "Room introuvable ou partie non demarree")
       ELSE IF gameStates[n.n].currentPlayerSocketId # s
         THEN GameFail(s, "endTurn", "Ce n'est pas votre tour")
       ELSE
         LET room == roomObj[n.n]
             state == gameStates[n.n]
         IN /\ gameStates' = [gameStates EXCEPT ![n.n].currentPlayerSocketId =
                 IF state.currentPlayerSocketId = room.hostSocketId
                   THEN room.guestSocketId ELSE room.hostSocketId]
            /\ out' = emitGameStateUpdated(n.n, rooms, roomObj, gameStates')
            /\ UNCHANGED <<conn, socketUser, rooms, roomObj, nextRoomId, pending, decks, http, api, users>>

\* ------------------------------------------------------------------------
\* disconnect
\* ------------------------------------------------------------------------
\* RoomsOf testing the host only
RoomsOfHostOnly(s) == {r \in SeqToSet(rooms) : roomObj[r].hostSocketId = s}

RoomsOf(s) ==
  {r \in SeqToSet(rooms) : roomObj[r].hostSocketId = s \/ roomObj[r].guestSocketId = s}

Disconnect(s) ==
  /\ IsConnected(s)
  /\ conn' = [conn EXCEPT ![s] = "closed"]
  /\ rooms' = SeqDelete(rooms, RoomsOf(s))
  /\ gameStates' = MapDelete(gameStates, RoomsOf(s))
  /\ roomObj' = Collect(roomObj, rooms', pending)
  /\ out' = IF RoomsOf(s) # {}
              THEN <<Msg(Everyone, "roomsListUpdated", getWaitingRooms(rooms', roomObj'))>>
              ELSE <<>>
  /\ UNCHANGED <<socketUser, nextRoomId, pending, decks, http, api, users>>

\* ------------------------------------------------------------------------
\* Deck repository writes made by the HTTP deck routes
\* ------------------------------------------------------------------------
\* prisma.deck.delete({where: {id}}) of deleteDeck
DeckDelete(d) ==
  /\ decks[d] # DbNull
  /\ decks' = [decks EXCEPT ![d] = DbNull]
  /\ out' = <<>>
  /\ UNCHANGED <<conn, socketUser, rooms, roomObj, gameStates, nextRoomId, pending, http, api, users>>

\* prisma.deckCard.deleteMany({where: {deckId}}) of updateDeck: the deck row is
\* left without cards until the update that follows
DeckCardsDeleteMany(d) ==
  /\ decks[d] # DbNull
  /\ decks[d].deckCards # <<>>
  /\ decks' = [decks EXCEPT ![d].deckCards = <<>>]
  /\ out' = <<>>
  /\ UNCHANGED <<conn, socketUser, rooms, roomObj, gameStates, nextRoomId, pending, http, api, users>>

\* prisma.deck.update({data: {deckCards: {create: cards.map(...)}}}) of
\* updateDeck, for the ten cards of the request
DeckUpdate(d, cards) ==
  /\ decks[d] # DbNull
  /\ decks[d].deckCards = <<>>
  /\ decks' = [decks EXCEPT ![d].deckCards = cards]
  /\ out' = <<>>
  /\ UNCHANGED <<conn, socketUser, rooms, roomObj, gameStates, nextRoomId, pending, http, api, users>>

\* ------------------------------------------------------------------------
\* HTTP middleware authenticateToken (src/src/middlewares/auth.middleware.ts)
\* ------------------------------------------------------------------------
UNAUTHORIZED == 401
INTERNAL_SERVER_ERROR == 500

\* a JS string as the sequence of its characters
Chars(c) == [t |-> "chars", c |-> c]
BearerPrefix == <<"B", "e", "a", "r", "e", "r", " ">>

\* str.startsWith(prefix) and str.substring(start)
startsWith(str, prefix) ==
  Len(str) >= Len(prefix) /\ SubSeq(str, 1, Len(prefix)) = prefix
substring(str, start) ==
  IF start >= Len(str) THEN <<>> ELSE SubSeq(str, start + 1, Len(str))

\* jwt.verify(token, env.JWT_SECRET): the decoded payload, or the error thrown
verify(token) ==
  CASE token = <<"t", "1">> ->
         [t |-> "payload", userId |-> JSNum(1), email |-> JSStr("ash@example.com")]
    [] token = <<"t", "2">> ->
         [t |-> "payload", userId |-> JSNum(2), email |-> JSStr("misty@example.com")]
    [] token = <<"t", "0">> ->
         [t |-> "payload", userId |-> JSUndefined, email |-> JSUndefined]
    [] token = <<"e", "x", "p">> -> [t |-> "TokenExpiredError"]
    [] OTHER -> [t |-> "JsonWebTokenError"]

\* res.status(code).json({error, message}): the response sent, nothing else done
Respond(code, message) ==
  [user |-> JSUndefined, nextCalls |-> 0,
   res |-> <<[status |-> code, message |-> message]>>]

\* authenticateToken without the test on the 'Bearer ' prefix
authenticateTokenAnyScheme(req) ==
  IF req.headers = JSUndefined
    THEN Respond(INTERNAL_SERVER_ERROR, "Erreur lors de la verification du token")
  ELSE
    LET authHeader == req.headers.authorization IN
      IF authHeader = JSUndefined \/ authHeader.c = <<>>
        THEN Respond(UNAUTHORIZED,
                     "Token manquant. Format attendu: Authorization: Bearer <token>")
      ELSE
        LET token == substring(authHeader.c, 7) IN
          IF token = <<>> THEN Respond(UNAUTHORIZED, "Token manquant")
          ELSE
            LET decoded == verify(token) IN
              IF decoded.t = "payload"
                THEN [user |-> [userId |-> decoded.userId, email |-> decoded.email],
                      nextCalls |-> 1,
                      res |-> <<>>]
              ELSE IF decoded.t = "TokenExpiredError"
                THEN Respond(UNAUTHORIZED, "Token expire")
              ELSE Respond(UNAUTHORIZED, "Token invalide")

\* what authenticateToken(req, res, next) leaves: req.user, the number of
\* calls of next, the responses sent.  Reading req.headers.authorization when
\* req.headers is undefined throws a TypeError, caught by the outer catch.
authenticateToken(req) ==
  IF req.headers = JSUndefined
    THEN Respond(INTERNAL_SERVER_ERROR, "Erreur lors de la verification du token")
  ELSE
    LET authHeader == req.headers.authorization IN
      IF \/ authHeader = JSUndefined
         \/ authHeader.c = <<>>
         \/ ~startsWith(authHeader.c, BearerPrefix)
        THEN Respond(UNAUTHORIZED,
                     "Token manquant. Format attendu: Authorization: Bearer <token>")
      ELSE
        LET token == substring(authHeader.c, 7) IN
          IF token = <<>> THEN Respond(UNAUTHORIZED, "Token manquant")
          ELSE
            LET decoded == verify(token) IN
              IF decoded.t = "payload"
                THEN [user |-> [userId |-> decoded.userId, email |-> decoded.email],
                      nextCalls |-> 1,
                      res |-> <<>>]
              ELSE IF decoded.t = "TokenExpiredError"
                THEN Respond(UNAUTHORIZED, "Token expire")
              ELSE Respond(UNAUTHORIZED, "Token invalide")

\* one request goes through the middleware
AuthenticateToken(req) ==
  /\ http' = Append(http, [req |-> req, outcome |-> authenticateToken(req)])
  /\ out' = <<>>
  /\ UNCHANGED <<conn, socketUser, rooms, roomObj, gameStates, nextRoomId, pending, decks,
               api, users>>

\* ------------------------------------------------------------------------
\* HTTP controllers: common parts
\* ------------------------------------------------------------------------
OK == 200
CREATED == 201
BAD_REQUEST == 400
FORBIDDEN == 403
NOT_FOUND == 404
CONFLICT == 409

\* a JS array
JSArray(a) == [t |-> "array", a |-> a]

\* parseInt(req.params.id) for the path segments the model sends
parseInt(s) ==
  CASE s = "1" -> JSNum(1)
    [] s = "2" -> JSNum(2)
    [] s = "3" -> JSNum(3)
    [] s = "2x" -> JSNum(2)
    [] OTHER -> JSNaN

ErrorBody(error, message) == [error |-> error, message |-> message]

\* res.status(status).json(body): the handler of client c has answered
Reply(c, status, body) ==
  api' = [api EXCEPT ![c] = [pc |-> "sent", status |-> status, body |-> body]]

\* client c may send a request: none of its requests is being handled
CanRequest(c) == api[c].pc \in {"idle", "sent"}

\* the parts of the state no controller touches
ApiFrame ==
  /\ out' = <<>>
  /\ UNCHANGED <<conn, socketUser, rooms, roomObj, gameStates, nextRoomId, pending, http>>

\* ------------------------------------------------------------------------
\* Deck controller (src/src/controllers/deck.controller.ts)
\* ------------------------------------------------------------------------
\* ids of the rows of prisma.card
NumCards == 11
CardIds == 1..NumCards

\* prisma.deck.findUnique({where: {id}}) over every deck ever stored
deckRow(id) == IF id \in DOMAIN decks THEN decks[id] ELSE DbNull

\* prisma.card.findMany({where: {id: {in: cards}}}): one row per existing id
findManyCards(cards) == {cards[i] : i \in DOMAIN cards} \cap CardIds

\* the next value of the autoincrement id of prisma.deck
NextDeckId == Cardinality(DOMAIN decks) + 1

\* the segment of createDeck before its first await
CreateDeck(c, userId, name, cards) ==
  /\ CanRequest(c)
  /\ LET req == [op |-> "createDeck", userId |-> userId, name |-> name, cards |-> cards]
     IN IF ~Truthy(userId)
          THEN Reply(c, UNAUTHORIZED, ErrorBody("Unauthorized", "Token manquant"))
        ELSE IF ~Truthy(name)
          THEN Reply(c, BAD_REQUEST, ErrorBody("Bad Request", "Le nom du deck est requis"))
        ELSE IF cards = JSUndefined \/ Len(cards.a) # DECK_SIZE
          THEN Reply(c, BAD_REQUEST,
                     ErrorBody("Bad Request", "Un deck doit contenir exactement 10 cartes"))
        ELSE api' = [api EXCEPT ![c] = [pc |-> "findMany", req |-> req]]
  /\ UNCHANGED <<decks, users>>
  /\ ApiFrame

\* createDeck after prisma.card.findMany
CreateDeckResumeCards(c, dbFails) ==
  /\ api[c].pc = "findMany"
  /\ api[c].req.op = "createDeck"
  /\ LET req == api[c].req
     IN IF dbFails
          THEN Reply(c, INTERNAL_SERVER_ERROR,
                     ErrorBody("Internal Server Error", "Erreur lors de la creation du deck"))
        ELSE IF Cardinality(findManyCards(req.cards.a)) # DECK_SIZE
          THEN Reply(c, BAD_REQUEST,
                     ErrorBody("Bad Request", "Certaines cartes n'existent pas"))
        ELSE api' = [api EXCEPT ![c].pc = "create"]
  /\ UNCHANGED <<decks, users>>
  /\ ApiFrame

\* createDeck after prisma.deck.create
CreateDeckResumeCreate(c, dbFails) ==
  /\ api[c].pc = "create"
  /\ api[c].req.op = "createDeck"
  /\ LET req == api[c].req
         deck == [id |-> NextDeckId, userId |-> req.userId.n,
                  username |-> UserName(req.userId.n), name |-> req.name.s,
                  deckCards |-> req.cards.a]
     IN IF dbFails
          THEN /\ Reply(c, INTERNAL_SERVER_ERROR,
                        ErrorBody("Internal Server Error", "Erreur lors de la creation du deck"))
               /\ UNCHANGED decks
          ELSE /\ decks' = [d \in (DOMAIN decks) \cup {NextDeckId} |->
                              IF d = NextDeckId THEN deck ELSE decks[d]]
               /\ Reply(c, CREATED, deck)
  /\ UNCHANGED users
  /\ ApiFrame

\* the rows of the decks in ids, newest first
RECURSIVE newestFirst(_)
newestFirst(ids) ==
  IF ids = {} THEN <<>>
  ELSE LET last == CHOOSE d \in ids : \A e \in ids : e <= d
       IN <<decks[last]>> \o newestFirst(ids \ {last})

\* prisma.deck.findMany({where: {userId}, orderBy: {createdAt: "desc"}})
findManyDecks(userId) ==
  newestFirst({d \in DOMAIN decks : decks[d] # DbNull /\ decks[d].userId = userId})

\* the segment of getMyDecks before its await
GetMyDecks(c, userId) ==
  /\ CanRequest(c)
  /\ IF ~Truthy(userId)
       THEN Reply(c, UNAUTHORIZED, ErrorBody("Unauthorized", "Token manquant"))
       ELSE api' = [api EXCEPT ![c] = [pc |-> "findManyDecks",
                                       req |-> [op |-> "getMyDecks", userId |-> userId]]]
  /\ UNCHANGED <<decks, users>>
  /\ ApiFrame

\* getMyDecks after prisma.deck.findMany
GetMyDecksResume(c, dbFails) ==
  /\ api[c].pc = "findManyDecks"
  /\ IF dbFails
       THEN Reply(c, INTERNAL_SERVER_ERROR,
                  ErrorBody("Internal Server Error", "Erreur lors de la recuperation des decks"))
       ELSE Reply(c, OK, JSArray(findManyDecks(api[c].req.userId.n)))
  /\ UNCHANGED <<decks, users>>
  /\ ApiFrame

\* the segment of getDeckById, updateDeck and deleteDeck before the first await
DeckRequest(c, op, userId, id, name, cards) ==
  /\ CanRequest(c)
  /\ LET req == [op |-> op, userId |-> userId, id |-> id, name |-> name, cards |-> cards]
         deckId == parseInt(id)
     IN IF ~Truthy(userId)
          THEN Reply(c, UNAUTHORIZED, ErrorBody("Unauthorized", "Token manquant"))
        ELSE IF IsNaN(deckId)
          THEN Reply(c, BAD_REQUEST, ErrorBody("Bad Request", "ID de deck invalide"))
        ELSE api' = [api EXCEPT ![c] = [pc |-> "findUnique", req |-> req, deckId |-> deckId.n]]
  /\ UNCHANGED <<decks, users>>
  /\ ApiFrame

GetDeckById(c, userId, id) == DeckRequest(c, "getDeckById", userId, id, JSUndefined, JSUndefined)
UpdateDeck(c, userId, id, name, cards) == DeckRequest(c, "updateDeck", userId, id, name, cards)
DeleteDeck(c, userId, id) == DeckRequest(c, "deleteDeck", userId, id, JSUndefined, JSUndefined)

\* getDeckById after prisma.deck.findUnique
GetDeckByIdResume(c, dbFails) ==
  /\ api[c].pc = "findUnique"
  /\ api[c].req.op = "getDeckById"
  /\ LET req == api[c].req
         deck == deckRow(api[c].deckId)
     IN IF dbFails
          THEN Reply(c, INTERNAL_SERVER_ERROR,
                     ErrorBody("Internal Server Error", "Erreur lors de la recuperation du deck"))
        ELSE IF deck = DbNull
          THEN Reply(c, NOT_FOUND, ErrorBody("Not Found", "Deck introuvable"))
        ELSE IF deck.userId # req.userId.n
          THEN Reply(c, FORBIDDEN, ErrorBody("Forbidden", "Vous n'avez pas acces a ce deck"))
        ELSE Reply(c, OK, deck)
  /\ UNCHANGED <<decks, users>>
  /\ ApiFrame

\* updateDeck after prisma.deck.findUnique, without the comparison of the owner
UpdateDeckResumeFindAnyUser(c, dbFails) ==
  /\ api[c].pc = "findUnique"
  /\ api[c].req.op = "updateDeck"
  /\ LET req == api[c].req
         existingDeck == deckRow(api[c].deckId)
     IN IF dbFails
          THEN Reply(c, INTERNAL_SERVER_ERROR,
                     ErrorBody("Internal Server Error", "Erreur lors de la modification du deck"))
        ELSE IF existingDeck = DbNull
          THEN Reply(c, NOT_FOUND, ErrorBody("Not Found", "Deck introuvable"))
        ELSE IF req.cards = JSUndefined
          THEN api' = [api EXCEPT ![c].pc = "update"]
        ELSE IF Len(req.cards.a) # DECK_SIZE
          THEN Reply(c, BAD_REQUEST,
                     ErrorBody("Bad Request", "Un deck doit contenir exactement 10 cartes"))
        ELSE api' = [api EXCEPT ![c].pc = "findMany"]
  /\ UNCHANGED <<decks, users>>
  /\ ApiFrame

\* updateDeck after prisma.deck.findUnique
UpdateDeckResumeFind(c, dbFails) ==
  /\ api[c].pc = "findUnique"
  /\ api[c].req.op = "updateDeck"
  /\ LET req == api[c].req
         existingDeck == deckRow(api[c].deckId)
     IN IF dbFails
          THEN Reply(c, INTERNAL_SERVER_ERROR,
                     ErrorBody("Internal Server Error", "Erreur lors de la modification du deck"))
        ELSE IF existingDeck = DbNull
          THEN Reply(c, NOT_FOUND, ErrorBody("Not Found", "Deck introuvable"))
        ELSE IF existingDeck.userId # req.userId.n
          THEN Reply(c, FORBIDDEN, ErrorBody("Forbidden", "Vous n'avez pas acces a ce deck"))
        ELSE IF req.cards = JSUndefined
          THEN api' = [api EXCEPT ![c].pc = "update"]
        ELSE IF Len(req.cards.a) # DECK_SIZE
          THEN Reply(c, BAD_REQUEST,
                     ErrorBody("Bad Request", "Un deck doit contenir exactement 10 cartes"))
        ELSE api' = [api EXCEPT ![c].pc = "findMany"]
  /\ UNCHANGED <<decks, users>>
  /\ ApiFrame

\* updateDeck after prisma.card.findMany
UpdateDeckResumeCards(c, dbFails) ==
  /\ api[c].pc = "findMany"
  /\ api[c].req.op = "updateDeck"
  /\ LET req == api[c].req
     IN IF dbFails
          THEN Reply(c, INTERNAL_SERVER_ERROR,
                     ErrorBody("Internal Server Error", "Erreur lors de la modification du deck"))
        ELSE IF Cardinality(findManyCards(req.cards.a)) # DECK_SIZE
          THEN Reply(c, BAD_REQUEST,
                     ErrorBody("Bad Request", "Certaines cartes n'existent pas"))
        ELSE api' = [api EXCEPT ![c].pc = "deleteMany"]
  /\ UNCHANGED <<decks, users>>
  /\ ApiFrame

\* updateDeck after prisma.deckCard.deleteMany
UpdateDeckResumeDeleteMany(c, dbFails) ==
  /\ api[c].pc = "deleteMany"
  /\ api[c].req.op = "updateDeck"
  /\ LET req == api[c].req
         d == api[c].deckId
     IN IF dbFails
          THEN /\ Reply(c, INTERNAL_SERVER_ERROR,
                        ErrorBody("Internal Server Error",
                                  "Erreur lors de la modification du deck"))
               /\ UNCHANGED decks
          ELSE /\ decks' = IF deckRow(d) = DbNull THEN decks
                           ELSE [decks EXCEPT ![d].deckCards = <<>>]
               /\ api' = [api EXCEPT ![c].pc = "update"]
  /\ UNCHANGED users
  /\ ApiFrame

\* updateDeck after prisma.deck.update.  The update throws when the row is
\* gone.  The schema is not part of the sources: when the row already holds one
\* of the cards to create (a concurrent updateDeck created them), the nested
\* create either adds the rows or throws on a unique constraint.
UpdateDeckResumeUpdate(c, dbFails, unique) ==
  /\ api[c].pc = "update"
  /\ api[c].req.op = "updateDeck"
  /\ LET req == api[c].req
         d == api[c].deckId
         row == deckRow(d)
         created == IF req.cards = JSUndefined THEN <<>> ELSE req.cards.a
         clash == row # DbNull /\ \E i \in DOMAIN created, j \in DOMAIN row.deckCards :
                                    created[i] = row.deckCards[j]
         deck == [row EXCEPT !.name = IF Truthy(req.name) THEN req.name.s ELSE @,
                             !.deckCards = @ \o created]
     IN IF dbFails \/ row = DbNull \/ (clash /\ unique)
          THEN /\ Reply(c, INTERNAL_SERVER_ERROR,
                        ErrorBody("Internal Server Error",
                                  "Erreur lors de la modification du deck"))
               /\ UNCHANGED decks
          ELSE /\ decks' = [decks EXCEPT ![d] = deck]
               /\ Reply(c, OK, deck)
  /\ UNCHANGED users
  /\ ApiFrame

\* deleteDeck after prisma.deck.findUnique
DeleteDeckResumeFind(c, dbFails) ==
  /\ api[c].pc = "findUnique"
  /\ api[c].req.op = "deleteDeck"
  /\ LET req == api[c].req
         deck == deckRow(api[c].deckId)
     IN IF dbFails
          THEN Reply(c, INTERNAL_SERVER_ERROR,
                     ErrorBody("Internal Server Error", "Erreur lors de la suppression du deck"))
        ELSE IF deck = DbNull
          THEN Reply(c, NOT_FOUND, ErrorBody("Not Found", "Deck introuvable"))
        ELSE IF deck.userId # req.userId.n
          THEN Reply(c, FORBIDDEN, ErrorBody("Forbidden", "Vous n'avez pas acces a ce deck"))
        ELSE api' = [api EXCEPT ![c].pc = "delete"]
  /\ UNCHANGED <<decks, users>>
  /\ ApiFrame

\* deleteDeck after prisma.deck.delete, which throws when the row is gone
DeleteDeckResumeDelete(c, dbFails) ==
  /\ api[c].pc = "delete"
  /\ api[c].req.op = "deleteDeck"
  /\ LET req == api[c].req
         d == api[c].deckId
     IN IF dbFails \/ deckRow(d) = DbNull
          THEN /\ Reply(c, INTERNAL_SERVER_ERROR,
                        ErrorBody("Internal Server Error",
                                  "Erreur lors de la suppression du deck"))
               /\ UNCHANGED decks
          ELSE /\ decks' = [decks EXCEPT ![d] = DbNull]
               /\ Reply(c, OK, [message |-> "Deck supprime avec succes"])
  /\ UNCHANGED users
  /\ ApiFrame

\* ------------------------------------------------------------------------
\* Auth controller (src/src/controllers/auth.controller.ts)
\* ------------------------------------------------------------------------
\* res.status(status).json(body) of an auth request, kept with its request
ReplyTo(c, req, status, body) ==
  api' = [api EXCEPT ![c] = [pc |-> "sent", req |-> req, status |-> status, body |-> body]]

\* jwt.sign({userId, email}, secret)
generateToken(userId, email) == [t |-> "jwt", userId |-> userId, email |-> email]

\* emailRegex.test(email) for /^[^\s@]+@[^\s@]+\.[^\s@]+$/
emailRegexTest(email) ==
  \E i \in 2..Len(email) :
    /\ email[i] = "@"
    /\ \A k \in (1..Len(email)) \ {i} : email[k] \notin {"@", " "}
    /\ \E j \in (i + 2)..(Len(email) - 1) : email[j] = "."

\* prisma.user.findUnique({where: {email}})
findUserByEmail(email) ==
  IF \E i \in DOMAIN users : users[i].email = email
    THEN users[CHOOSE i \in DOMAIN users : users[i].email = email]
    ELSE DbNull

\* prisma.user.findUnique({where: {username}})
findUserByUsername(username) ==
  IF \E i \in DOMAIN users : users[i].username = username
    THEN users[CHOOSE i \in DOMAIN users : users[i].username = username]
    ELSE DbNull

\* the fields of a user row that signUp selects and signIn copies (the dates
\* are left out of the rows)
PublicUser(user) == [id |-> user.id, email |-> user.email, username |-> user.username]

\* the segment of signUp before its first await
SignUp(c, email, username, password) ==
  /\ CanRequest(c)
  /\ LET req == [op |-> "signUp", email |-> email, username |-> username,
                 password |-> password]
     IN IF ~Truthy(email) \/ ~Truthy(username) \/ ~Truthy(password)
          THEN ReplyTo(c, req, BAD_REQUEST,
                       ErrorBody("Bad Request",
                                 "Donnees manquantes. Email, username et password sont requis."))
        ELSE IF ~emailRegexTest(email.c)
          THEN ReplyTo(c, req, BAD_REQUEST, ErrorBody("Bad Request", "Format d'email invalide"))
        ELSE IF Len(password.c) < 6
          THEN ReplyTo(c, req, BAD_REQUEST,
                       ErrorBody("Bad Request",
                                 "Le mot de passe doit contenir au moins 6 caracteres"))
        ELSE api' = [api EXCEPT ![c] = [pc |-> "findEmail", req |-> req]]
  /\ UNCHANGED <<decks, users>>
  /\ ApiFrame

\* signUp after prisma.user.findUnique({where: {email}})
SignUpResumeEmail(c, dbFails) ==
  /\ api[c].pc = "findEmail"
  /\ LET req == api[c].req
     IN IF dbFails
          THEN ReplyTo(c, req, INTERNAL_SERVER_ERROR,
                       ErrorBody("Internal Server Error", "Erreur lors de la creation du compte"))
        ELSE IF findUserByEmail(req.email.c) # DbNull
          THEN ReplyTo(c, req, CONFLICT, ErrorBody("Conflict", "Cet email est deja utilise"))
        ELSE api' = [api EXCEPT ![c].pc = "findUsername"]
  /\ UNCHANGED <<decks, users>>
  /\ ApiFrame

\* signUp after prisma.user.findUnique({where: {username}})
SignUpResumeUsername(c, dbFails) ==
  /\ api[c].pc = "findUsername"
  /\ LET req == api[c].req
     IN IF dbFails
          THEN ReplyTo(c, req, INTERNAL_SERVER_ERROR,
                       ErrorBody("Internal Server Error", "Erreur lors de la creation du compte"))
        ELSE IF findUserByUsername(req.username.s) # DbNull
          THEN ReplyTo(c, req, CONFLICT,
                       ErrorBody("Conflict", "Ce nom d'utilisateur est deja utilise"))
        ELSE api' = [api EXCEPT ![c].pc = "hash"]
  /\ UNCHANGED <<decks, users>>
  /\ ApiFrame

\* signUp after bcrypt.hash(password, 10)
SignUpResumeHash(c) ==
  /\ api[c].pc = "hash"
  /\ api' = [api EXCEPT ![c] = [pc |-> "createUser", req |-> api[c].req,
                                hashedPassword |-> bcryptHash(api[c].req.password.c)]]
  /\ UNCHANGED <<decks, users>>
  /\ ApiFrame

\* signUp after prisma.user.create, which throws when the email or the username
\* (both unique, as findUnique takes them) was stored in the meantime
SignUpResumeCreate(c, dbFails) ==
  /\ api[c].pc = "createUser"
  /\ LET req == api[c].req
         row == [id |-> Len(users) + 1, email |-> req.email.c, username |-> req.username.s,
                 password |-> api[c].hashedPassword]
     IN IF \/ dbFails
           \/ findUserByEmail(req.email.c) # DbNull
           \/ findUserByUsername(req.username.s) # DbNull
          THEN /\ ReplyTo(c, req, INTERNAL_SERVER_ERROR,
                          ErrorBody("Internal Server Error",
                                    "Erreur lors de la creation du compte"))
               /\ UNCHANGED users
          ELSE /\ users' = Append(users, row)
               /\ ReplyTo(c, req, CREATED,
                          [token |-> generateToken(row.id, row.email),
                           user |-> PublicUser(row)])
  /\ UNCHANGED decks
  /\ ApiFrame

\* the segment of signIn before its first await
SignIn(c, email, password) ==
  /\ CanRequest(c)
  /\ LET req == [op |-> "signIn", email |-> email, password |-> password]
     IN IF ~Truthy(email) \/ ~Truthy(password)
          THEN ReplyTo(c, req, BAD_REQUEST,
                       ErrorBody("Bad Request", "Email et password sont requis"))
          ELSE api' = [api EXCEPT ![c] = [pc |-> "findUser", req |-> req]]
  /\ UNCHANGED <<decks, users>>
  /\ ApiFrame

\* signIn after prisma.user.findUnique({where: {email}})
SignInResumeFindTelling(c, dbFails) ==
  /\ api[c].pc = "findUser"
  /\ LET req == api[c].req
         user == findUserByEmail(req.email.c)
     IN IF dbFails
          THEN ReplyTo(c, req, INTERNAL_SERVER_ERROR,
                       ErrorBody("Internal Server Error", "Erreur lors de la connexion"))
        ELSE IF user = DbNull
          THEN ReplyTo(c, req, NOT_FOUND, ErrorBody("Not Found", "Utilisateur introuvable"))
        ELSE api' = [api EXCEPT ![c] = [pc |-> "compare", req |-> req, user |-> user]]
  /\ UNCHANGED <<decks, users>>
  /\ ApiFrame

\* signIn after prisma.user.findUnique({where: {email}})
SignInResumeFind(c, dbFails) ==
  /\ api[c].pc = "findUser"
  /\ LET req == api[c].req
         user == findUserByEmail(req.email.c)
     IN IF dbFails
          THEN ReplyTo(c, req, INTERNAL_SERVER_ERROR,
                       ErrorBody("Internal Server Error", "Erreur lors de la connexion"))
        ELSE IF user = DbNull
          THEN ReplyTo(c, req, UNAUTHORIZED,
                       ErrorBody("Unauthorized", "Email ou mot de passe incorrect"))
        ELSE api' = [api EXCEPT ![c] = [pc |-> "compare", req |-> req, user |-> user]]
  /\ UNCHANGED <<decks, users>>
  /\ ApiFrame

\* signIn after bcrypt.compare(password, user.password)
SignInResumeCompare(c) ==
  /\ api[c].pc = "compare"
  /\ LET req == api[c].req
         user == api[c].user
         isPasswordValid == bcryptCompare(req.password.c, user.password)
     IN IF ~isPasswordValid
          THEN ReplyTo(c, req, UNAUTHORIZED,
                       ErrorBody("Unauthorized", "Email ou mot de passe incorrect"))
          ELSE ReplyTo(c, req, OK,
                       [token |-> generateToken(user.id, user.email),
                        user |-> PublicUser(user)])
  /\ UNCHANGED <<decks, users>>
  /\ ApiFrame

\* ------------------------------------------------------------------------
\* Inputs and specifications
\* ------------------------------------------------------------------------
RoomIdInputs(max) == {JSNum(r) : r \in FirstRoomId..(FirstRoomId + max - 1)}
DeckIdInputs == {JSNum(d) : d \in DeckIds}
CardIndexInputs == {JSNum(0)}

\* the token each session presents in its handshake
TokensOf(s) == IF s = "s2" THEN {"t2"} ELSE {"t1"}

\* createRoom requests are sent while fewer than max rooms are allocated or on their way
CanAllocate(max) == (nextRoomId - FirstRoomId) + Cardinality(PendingCreates) < max

\* One room hosted by s1; s2 and s3 join it, possibly at the same time; the match
\* is played; any session may close; the repository may throw.
Next ==
  \/ \E s \in Sockets : \E token \in TokensOf(s) : Connect(s, token)
  \/ \E s \in Sockets : GetRooms(s)
  \/ \E s \in {"s1"}, d \in DeckIdInputs : CanAllocate(MaxRooms) /\ CreateRoomCall(s, d)
  \/ \E s \in Sockets, f \in BOOLEAN : CreateRoomResume(s, f)
  \/ \E s \in {"s2", "s3"}, r \in RoomIdInputs(MaxRooms), d \in DeckIdInputs :
       JoinRoomCall(s, r, d)
  \/ \E s \in Sockets, f \in BOOLEAN : JoinRoomResumeDeck(s, f)
  \/ \E s \in Sockets, f \in BOOLEAN : JoinRoomResumeHostDeck(s, f)
  \/ \E s \in Sockets, r \in RoomIdInputs(MaxRooms) : DrawCards(s, r)
  \/ \E s \in Sockets, r \in RoomIdInputs(MaxRooms), i \in CardIndexInputs : PlayCard(s, r, i)
  \/ \E s \in Sockets, r \in RoomIdInputs(MaxRooms) : Attack(s, r)
  \/ \E s \in Sockets, r \in RoomIdInputs(MaxRooms) : EndTurn(s, r)
  \/ \E s \in Sockets : Disconnect(s)

Spec == Init /\ [][Next]_vars

\* Matchmaking only: two rooms hosted by s1 and s2; s1 and s3 join them (s1 its
\* own room included), possibly at the same time; decks may be deleted through
\* the HTTP routes; no match request is sent.
NextLobby ==
  \/ \E s \in Sockets : \E token \in TokensOf(s) : Connect(s, token)
  \/ \E s \in Sockets : GetRooms(s)
  \/ \E s \in {"s1", "s2"}, d \in DeckIdInputs : CanAllocate(LobbyMaxRooms) /\ CreateRoomCall(s, d)
  \/ \E s \in Sockets, f \in BOOLEAN : CreateRoomResume(s, f)
  \/ \E s \in {"s1", "s3"}, r \in RoomIdInputs(LobbyMaxRooms), d \in DeckIdInputs :
       JoinRoomCall(s, r, d)
  \/ \E s \in Sockets, f \in BOOLEAN : JoinRoomResumeDeck(s, f)
  \/ \E s \in Sockets, f \in BOOLEAN : JoinRoomResumeHostDeck(s, f)
  \/ \E s \in Sockets : Disconnect(s)
  \/ \E d \in DeckIds : DeckDelete(d)

SpecLobby == Init /\ [][NextLobby]_vars

\* A match between s1 (host, deck 1) and s2 (guest, deck 2) over a repository
\* whose decks hold different cards, so that the order of a deck and the index
\* played matter.
VariedDecks ==
  [d \in DeckIds |->
     IF d = 1
       THEN [id |-> 1, userId |-> 1, username |-> UserName(1), name |-> "Starter Deck",
             deckCards |-> <<1, 1, 1, 1, 3, 1, 1, 1, 1, 1>>]
       ELSE [id |-> 2, userId |-> 2, username |-> UserName(2), name |-> "Starter Deck",
             deckCards |-> <<2, 2, 2, 2, 2, 2, 2, 2, 2, 3>>]]

MatchCardIndexInputs == {JSNum(0), JSNum(1), JSNum(4)}

InitMatch ==
  /\ conn = [s \in Sockets |-> "new"]
  /\ socketUser = [s \in Sockets |-> NoUser]
  /\ rooms = <<>>
  /\ roomObj = <<>>
  /\ gameStates = <<>>
  /\ nextRoomId = FirstRoomId
  /\ pending = [s \in Sockets |-> Idle]
  /\ decks = VariedDecks
  /\ out = <<>>
  /\ http = <<>>
  /\ api = [c \in Clients |-> ApiIdle]
  /\ users = InitialUsers

NextMatch ==
  \/ \E s \in {"s1", "s2"} : \E token \in TokensOf(s) : Connect(s, token)
  \/ \E s \in {"s1"}, d \in {JSNum(1)} : CanAllocate(MaxRooms) /\ CreateRoomCall(s, d)
  \/ \E s \in {"s1"}, f \in {FALSE} : CreateRoomResume(s, f)
  \/ \E s \in {"s2"}, r \in RoomIdInputs(MaxRooms), d \in {JSNum(2)} : JoinRoomCall(s, r, d)
  \/ \E s \in {"s2"}, f \in {FALSE} : JoinRoomResumeDeck(s, f)
  \/ \E s \in {"s2"}, f \in {FALSE} : JoinRoomResumeHostDeck(s, f)
  \/ \E s \in {"s1", "s2"}, r \in RoomIdInputs(MaxRooms) : DrawCards(s, r)
  \/ \E s \in {"s1", "s2"}, r \in RoomIdInputs(MaxRooms), i \in MatchCardIndexInputs :
       PlayCard(s, r, i)
  \/ \E s \in {"s1", "s2"}, r \in RoomIdInputs(MaxRooms) : Attack(s, r)
  \/ \E s \in {"s1", "s2"}, r \in RoomIdInputs(MaxRooms) : EndTurn(s, r)
  \/ \E s \in {"s1", "s2"} : Disconnect(s)

SpecMatch == InitMatch /\ [][NextMatch]_vars

\* A match between s1 (host, deck 1) and s2 (guest, deck 2) whose requests carry
\* every kind of roomId and cardIndex a JSON client can send: missing, null,
\* non-numeric and numeric strings, zero, an unknown id, negative, fractional
\* and too large numbers.
InputRoomIds ==
  {JSUndefined, JSNull, JSStr("abc"), JSStr(""), JSNum(0), JSNum(FirstRoomId + MaxRooms),
   JSStr("1"), JSNum(1)}

InputCardIndexes ==
  {JSUndefined, JSNull, JSStr("abc"), JSStr("1"), JSFraction(0), JSFraction(-1),
   JSNum(-1), JSNum(0), JSNum(HAND_MAX)}

NextInputs ==
  \/ \E s \in {"s1", "s2"} : \E token \in TokensOf(s) : Connect(s, token)
  \/ \E s \in {"s1"}, d \in {JSNum(1)} : CanAllocate(MaxRooms) /\ CreateRoomCall(s, d)
  \/ \E s \in {"s1"}, f \in {FALSE} : CreateRoomResume(s, f)
  \/ \E s \in {"s2"}, r \in RoomIdInputs(MaxRooms), d \in {JSNum(2)} : JoinRoomCall(s, r, d)
  \/ \E s \in {"s2"}, f \in {FALSE} : JoinRoomResumeDeck(s, f)
  \/ \E s \in {"s2"}, f \in {FALSE} : JoinRoomResumeHostDeck(s, f)
  \/ \E s \in {"s1", "s2"}, r \in InputRoomIds : DrawCards(s, r)
  \/ \E s \in {"s1", "s2"}, r \in InputRoomIds, i \in {JSUndefined, JSNum(0)} : PlayCard(s, r, i)
  \/ \E s \in {"s1", "s2"}, r \in RoomIdInputs(MaxRooms), i \in InputCardIndexes :
       PlayCard(s, r, i)
  \/ \E s \in {"s1", "s2"}, r \in InputRoomIds : Attack(s, r)
  \/ \E s \in {"s1", "s2"}, r \in InputRoomIds : EndTurn(s, r)
  \/ \E s \in {"s1", "s2"} : Disconnect(s)

SpecInputs == Init /\ [][NextInputs]_vars

\* Room creation: s1 and s2 send createRoom with every kind of deckId (missing,
\* non-numeric, numeric string, own deck, the other user's deck, an id without
\* a deck), s3 joins, sessions close, and the HTTP deck routes delete decks and
\* rewrite their cards meanwhile; the repository may throw.
CreateMaxRooms == 3

CreateDeckIds ==
  {JSUndefined, JSStr("abc"), JSNum(1), JSNum(2), JSStr("2"), JSNum(3)}

NextCreate ==
  \/ \E s \in Sockets : \E token \in TokensOf(s) : Connect(s, token)
  \/ \E s \in Sockets : GetRooms(s)
  \/ \E s \in {"s1", "s2"}, d \in CreateDeckIds :
       CanAllocate(CreateMaxRooms) /\ CreateRoomCall(s, d)
  \/ \E s \in Sockets, f \in BOOLEAN : CreateRoomResume(s, f)
  \/ \E s \in {"s3"}, r \in RoomIdInputs(CreateMaxRooms), d \in {JSNum(1)} :
       JoinRoomCall(s, r, d)
  \/ \E s \in Sockets, f \in {FALSE} : JoinRoomResumeDeck(s, f)
  \/ \E s \in Sockets, f \in {FALSE} : JoinRoomResumeHostDeck(s, f)
  \/ \E s \in Sockets : Disconnect(s)
  \/ \E d \in DeckIds : DeckDelete(d)
  \/ \E d \in DeckIds : DeckCardsDeleteMany(d)
  \/ \E d \in DeckIds : DeckUpdate(d, InitialDecks[d].deckCards)

SpecCreate == Init /\ [][NextCreate]_vars

\* Handshakes: every session presents no token, a token that fails
\* verification, or its user's token; s1 hosts one room, s2 joins it, and
\* every session sends getRooms and the match events.
AuthTokensOf(s) == {"none", "bad"} \cup TokensOf(s)

NextAuth ==
  \/ \E s \in Sockets : \E token \in AuthTokensOf(s) : Connect(s, token)
  \/ \E s \in Sockets : GetRooms(s)
  \/ \E s \in {"s1"}, d \in DeckIdInputs : CanAllocate(MaxRooms) /\ CreateRoomCall(s, d)
  \/ \E s \in Sockets, f \in {FALSE} : CreateRoomResume(s, f)
  \/ \E s \in {"s2"}, r \in RoomIdInputs(MaxRooms), d \in DeckIdInputs : JoinRoomCall(s, r, d)
  \/ \E s \in Sockets, f \in {FALSE} : JoinRoomResumeDeck(s, f)
  \/ \E s \in Sockets, f \in {FALSE} : JoinRoomResumeHostDeck(s, f)
  \/ \E s \in Sockets, r \in RoomIdInputs(MaxRooms) : DrawCards(s, r)
  \/ \E s \in Sockets, r \in RoomIdInputs(MaxRooms), i \in CardIndexInputs : PlayCard(s, r, i)
  \/ \E s \in Sockets, r \in RoomIdInputs(MaxRooms) : Attack(s, r)
  \/ \E s \in Sockets, r \in RoomIdInputs(MaxRooms) : EndTurn(s, r)
  \/ \E s \in Sockets : Disconnect(s)

SpecAuth == Init /\ [][NextAuth]_vars

\* HTTP requests through authenticateToken: no headers object, no Authorization
\* header, an empty one, other schemes, a lower-case scheme, 'Bearer' with and
\* without a token, and tokens that verify, have expired or fail verification.
HttpMaxRequests == 2

Basic == <<"B", "a", "s", "i", "c", " ">>
LowerBearer == <<"b", "e", "a", "r", "e", "r", " ">>
HttpTokens ==
  {<<"t", "1">>, <<"t", "2">>, <<"t", "0">>, <<"e", "x", "p">>, <<"b", "a", "d">>, <<" ", "t", "1">>}
AuthorizationHeaders ==
  {JSUndefined, Chars(<<>>), Chars(<<"B", "e", "a", "r", "e", "r">>), Chars(BearerPrefix),
   Chars(<<"t", "1">>), Chars(Basic \o <<"t", "1">>), Chars(LowerBearer \o <<"t", "1">>)}
    \cup {Chars(BearerPrefix \o tok) : tok \in HttpTokens}
HttpRequests ==
  {[headers |-> JSUndefined]} \cup {[headers |-> [authorization |-> h]] : h \in AuthorizationHeaders}

NextHttp ==
  \E req \in HttpRequests : Len(http) < HttpMaxRequests /\ AuthenticateToken(req)

SpecHttp == Init /\ [][NextHttp]_vars

\* ------------------------------------------------------------------------
\* Properties
\* ------------------------------------------------------------------------
Started == DOMAIN gameStates
InGameRooms == {r \in SeqToSet(rooms) : roomObj[r].status = "in-game"}

\* C1: a room's guest fields are written at most once, and each gameStarted is
\* emitted once per room, to the host and to the guest the room records.
C1_SingleJoin ==
  [][/\ \A r \in (DOMAIN roomObj) \cap (DOMAIN roomObj') :
          roomObj[r].guestSocketId # NoSocket
            => roomObj'[r].guestSocketId = roomObj[r].guestSocketId
     /\ \A i \in DOMAIN out' :
          out'[i].event = "gameStarted"
            => /\ out'[i].payload.roomId \notin DOMAIN gameStates
               /\ out'[i].to \in {roomObj[out'[i].payload.roomId].hostSocketId,
                                  roomObj[out'[i].payload.roomId].guestSocketId}]_vars

\* C2: when a suspended joinRoom of session s replies with an error, the room
\* does not carry s as its guest and the step creates no game-state.
C2_FailedJoinLeavesRoom ==
  [][\A i \in DOMAIN out' :
       (out'[i].event = "error" /\ out'[i].payload.event = "joinRoom"
          /\ pending[out'[i].to].op = "joinRoom")
         => /\ roomObj[pending[out'[i].to].roomId].guestSocketId # out'[i].to
            /\ roomObj[pending[out'[i].to].roomId].status = "waiting"
                 \/ roomObj[pending[out'[i].to].roomId].guestSocketId # NoSocket
            /\ gameStates' = gameStates]_vars

\* C3: every in-game room has a guest that is neither the host's user nor the
\* host's session.
C3_NoSelfJoin ==
  \A r \in InGameRooms :
    /\ roomObj[r].hostUserId # roomObj[r].guestUserId
    /\ roomObj[r].hostSocketId # roomObj[r].guestSocketId

\* C7: the current player of every match in the registry is the room's host
\* or the room's guest.
C7_CurrentPlayerIsParticipant ==
  \A r \in Started \cap SeqToSet(rooms) :
    gameStates[r].currentPlayerSocketId
      \in {roomObj[r].hostSocketId, roomObj[r].guestSocketId}

\* C8: both scores are within 0..3 and no stored game-state has a score of 3.
C8_ScoresBelowWin ==
  \A r \in Started :
    /\ gameStates[r].hostScore \in 0..WIN_SCORE
    /\ gameStates[r].guestScore \in 0..WIN_SCORE
    /\ gameStates[r].hostScore # WIN_SCORE
    /\ gameStates[r].guestScore # WIN_SCORE

\* C4: a disconnect of session s removes exactly the rooms s hosts or guests,
\* with their game-states, leaves every other room and game-state as it was,
\* broadcasts roomsListUpdated once if a room was removed and not at all
\* otherwise, and no removed room is listed then or ever returns to the registry.
C4_DisconnectCleansUp ==
  [][/\ \A s \in Sockets :
          (conn[s] = "open" /\ conn'[s] = "closed")
            => LET gone == {r \in SeqToSet(rooms) :
                              roomObj[r].hostSocketId = s \/ roomObj[r].guestSocketId = s}
                   listed == getWaitingRooms(rooms', roomObj')
               IN /\ rooms' = SeqDelete(rooms, gone)
                  /\ DOMAIN gameStates' = (DOMAIN gameStates) \ gone
                  /\ \A r \in SeqToSet(rooms') : roomObj'[r] = roomObj[r]
                  /\ \A r \in DOMAIN gameStates' : gameStates'[r] = gameStates[r]
                  /\ Len(out') = IF gone = {} THEN 0 ELSE 1
                  /\ \A i \in DOMAIN out' :
                       /\ out'[i].event = "roomsListUpdated"
                       /\ out'[i].to = Everyone
                       /\ out'[i].payload = listed
                  /\ \A j \in DOMAIN listed : listed[j].id \notin gone
     /\ \A r \in FirstRoomId..(nextRoomId - 1) :
          r \notin SeqToSet(rooms) => r \notin SeqToSet(rooms')]_vars

\* a session has closed, its room is gone and was broadcast, and the room of
\* other sessions is still registered with its game-state
C4_Witness ==
  /\ \E s \in Sockets : conn[s] = "closed"
  /\ Len(out) = 1
  /\ out[1].event = "roomsListUpdated"
  /\ nextRoomId = FirstRoomId + 2
  /\ Len(rooms) = 1
  /\ rooms[1] \in DOMAIN gameStates

\* C5: in every game-state each hand holds at most 5 cards.
C5_HandAtMostFive ==
  \A r \in Started :
    /\ Len(gameStates[r].hostHand) <= 5
    /\ Len(gameStates[r].guestHand) <= 5

\* both hands are full after cards were drawn, played and knocked out
C5_Witness ==
  \E r \in Started :
    /\ Len(gameStates[r].hostHand) = 5
    /\ Len(gameStates[r].guestHand) = 5
    /\ gameStates[r].hostScore > 0
    /\ gameStates[r].guestScore > 0
    /\ Len(gameStates[r].hostDeck) < 5

CardsOf(deck, hand, active) ==
  deck \o hand \o (IF NoActive(active) THEN <<>> ELSE <<active>>)
Count(seq, id) == Cardinality({i \in DOMAIN seq : seq[i].id = id})
CountIds(ids, id) == Cardinality({i \in DOMAIN ids : ids[i] = id})

\* C6: for each player deck + hand + active + knockouts suffered is 10, and no
\* card is held more often in deck, hand and active than the player's deck has it.
C6_CardsConserved ==
  \A r \in Started \cap SeqToSet(rooms) :
    LET g == gameStates[r]
        hostCards == CardsOf(g.hostDeck, g.hostHand, g.hostActive)
        guestCards == CardsOf(g.guestDeck, g.guestHand, g.guestActive)
    IN /\ Len(hostCards) + g.guestScore = 10
       /\ Len(guestCards) + g.hostScore = 10
       /\ \A c \in DOMAIN CardTable :
            /\ Count(hostCards, c) <= CountIds(decks[roomObj[r].hostDeckId].deckCards, c)
            /\ Count(guestCards, c) <= CountIds(decks[roomObj[r].guestDeckId].deckCards, c)

\* both players have lost a card and hold cards in deck, hand and active
C6_Witness ==
  \E r \in Started \cap SeqToSet(rooms) :
    /\ gameStates[r].hostScore > 0
    /\ gameStates[r].guestScore > 0
    /\ ~NoActive(gameStates[r].hostActive)
    /\ ~NoActive(gameStates[r].guestActive)
    /\ Len(gameStates[r].hostHand) > 0
    /\ Len(gameStates[r].guestHand) > 0

Reverse(seq) == [i \in DOMAIN seq |-> seq[Len(seq) + 1 - i]]
AltHands(hand) ==
  {<<>>, Reverse(hand), [i \in DOMAIN hand |-> CardTable[3]], Append(hand, CardTable[2])}
AltDecks(deck) == {deck, Reverse(deck), [i \in DOMAIN deck |-> CardTable[3]]}

\* the game-states that differ from state only in what is private to the
\* opponent of role: the opponent's hand, and the contents and order of both decks
PrivateVariants(state, role) ==
  {IF role = "host"
     THEN [state EXCEPT !.guestHand = h, !.hostDeck = hd, !.guestDeck = gd]
     ELSE [state EXCEPT !.hostHand = h, !.hostDeck = hd, !.guestDeck = gd] :
   h \in AltHands(IF role = "host" THEN state.guestHand ELSE state.hostHand),
   hd \in AltDecks(state.hostDeck),
   gd \in AltDecks(state.guestDeck)}

ViewFields ==
  {"roomId", "myHand", "myActive", "myDeckCount", "myScore", "opponentActive",
   "opponentDeckCount", "opponentScore", "currentPlayerSocketId"}

\* C9: the view of a recipient is the same for all game-states that differ only
\* in the opponent's hand and in the decks' contents; it has the nine view
\* fields, with the recipient's own hand; each gameStateUpdated carries the
\* view of the role its recipient has in the room.
C9_ViewHidesOpponent ==
  /\ \A r \in Started :
       \A role \in {"host", "guest"} :
         LET view == buildGameStateView(r, gameStates[r], role)
         IN /\ \A alt \in PrivateVariants(gameStates[r], role) :
                 buildGameStateView(r, alt, role) = view
            /\ DOMAIN view = ViewFields
            /\ view.myHand =
                 IF role = "host" THEN gameStates[r].hostHand ELSE gameStates[r].guestHand
  /\ \A i \in DOMAIN out :
       out[i].event = "gameStateUpdated"
         => LET r == out[i].payload.roomId
            IN out[i].payload =
                 buildGameStateView(r, gameStates[r],
                   IF out[i].to = roomObj[r].hostSocketId THEN "host" ELSE "guest")

\* views were just sent while both players hold different, non-empty hands
C9_Witness ==
  \E r \in Started :
    /\ Len(out) = 2
    /\ out[1].event = "gameStateUpdated"
    /\ Len(gameStates[r].hostHand) > 0
    /\ Len(gameStates[r].guestHand) > 0
    /\ gameStates[r].hostHand # gameStates[r].guestHand
    /\ gameStates[r].hostDeck # Reverse(gameStates[r].hostDeck)

\* C10: a drawCards, playCard, attack or endTurn on a started match by a session
\* that is not the current player emits one error to that session and changes
\* neither the game-states nor the rooms.
C10_OutOfTurnRejected ==
  [][\A s \in Sockets :
       \A r \in Started \cap SeqToSet(rooms) :
         (/\ roomObj[r].guestSocketId # NoSocket
          /\ gameStates[r].currentPlayerSocketId # s
          /\ \/ DrawCards(s, JSNum(r))
             \/ \E i \in CardIndexInputs : PlayCard(s, JSNum(r), i)
             \/ Attack(s, JSNum(r))
             \/ EndTurn(s, JSNum(r)))
           => /\ Len(out') = 1
              /\ out'[1].event = "error"
              /\ out'[1].to = s
              /\ gameStates' = gameStates
              /\ rooms' = rooms
              /\ roomObj' = roomObj]_vars

\* the opponent of the current player was just refused in a match under way
C10_Witness ==
  \E r \in Started \cap SeqToSet(rooms) :
    /\ Len(out) = 1
    /\ out[1].event = "error"
    /\ out[1].payload.message = "Ce n'est pas votre tour"
    /\ out[1].to \in {roomObj[r].hostSocketId, roomObj[r].guestSocketId}
    /\ out[1].to # gameStates[r].currentPlayerSocketId
    /\ Len(gameStates[r].hostHand) > 0

\* ------------------------------------------------------------------------
\* Attack, end of match
\* ------------------------------------------------------------------------
\* session s is the current player of the started match of room r
IsTurnOf(s, r) ==
  /\ r \in Started \cap SeqToSet(rooms)
  /\ roomObj[r].guestSocketId # NoSocket
  /\ gameStates[r].currentPlayerSocketId = s

ActorIsHost(s, r) == s = roomObj[r].hostSocketId
AttackerActive(s, r) ==
  IF ActorIsHost(s, r) THEN gameStates[r].hostActive ELSE gameStates[r].guestActive
DefenderActive(s, r) ==
  IF ActorIsHost(s, r) THEN gameStates[r].guestActive ELSE gameStates[r].hostActive
AttackerScore(s, r) ==
  IF ActorIsHost(s, r) THEN gameStates[r].hostScore ELSE gameStates[r].guestScore
DefenderScore(s, r) ==
  IF ActorIsHost(s, r) THEN gameStates[r].guestScore ELSE gameStates[r].hostScore

\* both actives are on the field, so an attack of s on r goes through
CanAttack(s, r) ==
  /\ IsTurnOf(s, r)
  /\ ~NoActive(AttackerActive(s, r))
  /\ ~NoActive(DefenderActive(s, r))

DamageOf(s, r) ==
  calculateDamage(AttackerActive(s, r).attack, AttackerActive(s, r).type,
                  DefenderActive(s, r).type)

\* the attack of s on r knocks the defender's active out
KnocksOut(s, r) == DefenderActive(s, r).hp - DamageOf(s, r) <= 0

\* a drawCards, playCard, attack or endTurn request of s on room r
GameRequest(s, r) ==
  \/ DrawCards(s, JSNum(r))
  \/ \E i \in CardIndexInputs : PlayCard(s, JSNum(r), i)
  \/ Attack(s, JSNum(r))
  \/ EndTurn(s, JSNum(r))

\* the step answers s with one error and changes no room and no game-state
RejectedStep(s) ==
  /\ Len(out') = 1
  /\ out'[1].event = "error"
  /\ out'[1].to = s
  /\ gameStates' = gameStates
  /\ rooms' = rooms
  /\ roomObj' = roomObj

\* C11: an attack that brings the attacker's score to 3 emits gameEnded to the
\* host and to the guest, with the attacker as winner and the scores after the
\* attack (3 for the winner, less for the loser), and deletes the game-state;
\* every game request on a room without a game-state is rejected and changes
\* nothing.
C11_WinEndsMatch ==
  [][\A s \in Sockets :
       \A r \in SeqToSet(rooms) :
         /\ (/\ CanAttack(s, r)
             /\ KnocksOut(s, r)
             /\ AttackerScore(s, r) = WIN_SCORE - 1
             /\ Attack(s, JSNum(r)))
              => LET ended == [roomId |-> r,
                               winnerSocketId |-> s,
                               hostScore |-> IF ActorIsHost(s, r) THEN WIN_SCORE
                                             ELSE DefenderScore(s, r),
                               guestScore |-> IF ActorIsHost(s, r) THEN DefenderScore(s, r)
                                              ELSE WIN_SCORE]
                 IN /\ out' = <<Msg(roomObj[r].hostSocketId, "gameEnded", ended),
                                Msg(roomObj[r].guestSocketId, "gameEnded", ended)>>
                    /\ DefenderScore(s, r) < WIN_SCORE
                    /\ r \notin DOMAIN gameStates'
         /\ (r \notin DOMAIN gameStates /\ GameRequest(s, r)) => RejectedStep(s)]_vars

\* C12: a step that ends the match of room r (it emits gameEnded for r) removes
\* r from the registry, and so does the closing of the host's or the guest's
\* session.
C12_EndedRoomDeleted ==
  [][/\ \A i \in DOMAIN out' :
          out'[i].event = "gameEnded" => out'[i].payload.roomId \notin SeqToSet(rooms')
     /\ \A s \in Sockets :
          (conn[s] = "open" /\ conn'[s] = "closed")
            => \A r \in SeqToSet(rooms') :
                 roomObj'[r].hostSocketId # s /\ roomObj'[r].guestSocketId # s]_vars

\* C13: an attack of the current player with both actives on the field
\* subtracts d = damage(attacker.attack, attacker.type, defender.type) >= 0
\* from the defender's hp; at hp <= 0 the defender's active is cleared and the
\* attacker's score rises by 1, otherwise the defender's active stays and no
\* score changes; the turn goes to the opponent; the attacker's active, the
\* hands and the decks are unchanged.  (When the attack ends the match the
\* game-state is deleted and the scores are those of gameEnded.)
C13_AttackEffect ==
  [][\A s \in Sockets :
       \A r \in SeqToSet(rooms) :
         (CanAttack(s, r) /\ Attack(s, JSNum(r)))
           => LET old == gameStates[r]
                  isHost == ActorIsHost(s, r)
                  d == DamageOf(s, r)
                  def == DefenderActive(s, r)
                  ko == def.hp - d <= 0
                  newDef == IF ko THEN NoCard ELSE [def EXCEPT !.hp = def.hp - d]
                  newScore == IF ko THEN AttackerScore(s, r) + 1 ELSE AttackerScore(s, r)
                  opponent == IF isHost THEN roomObj[r].guestSocketId
                              ELSE roomObj[r].hostSocketId
              IN /\ d >= 0
                 /\ IF r \in DOMAIN gameStates'
                      THEN LET new == gameStates'[r]
                           IN /\ new.currentPlayerSocketId = opponent
                              /\ new.hostDeck = old.hostDeck
                              /\ new.guestDeck = old.guestDeck
                              /\ new.hostHand = old.hostHand
                              /\ new.guestHand = old.guestHand
                              /\ IF isHost
                                   THEN /\ new.hostActive = old.hostActive
                                        /\ new.guestActive = newDef
                                        /\ new.hostScore = newScore
                                        /\ new.guestScore = old.guestScore
                                   ELSE /\ new.guestActive = old.guestActive
                                        /\ new.hostActive = newDef
                                        /\ new.guestScore = newScore
                                        /\ new.hostScore = old.hostScore
                      ELSE /\ ko
                           /\ Len(out') = 2
                           /\ \A i \in DOMAIN out' :
                                /\ out'[i].event = "gameEnded"
                                /\ out'[i].payload.hostScore =
                                     IF isHost THEN newScore ELSE old.hostScore
                                /\ out'[i].payload.guestScore =
                                     IF isHost THEN old.guestScore ELSE newScore]_vars

\* an attack has just been answered; one defender was knocked out before and
\* the guest's active card has survived a hit
C13_Witness ==
  \E r \in Started :
    /\ Len(out) = 2
    /\ out[1].event = "gameStateUpdated"
    /\ gameStates[r].hostScore + gameStates[r].guestScore > 0
    /\ ~NoActive(gameStates[r].guestActive)
    /\ gameStates[r].guestActive.hp < CardTable[gameStates[r].guestActive.id].hp
    /\ gameStates[r].currentPlayerSocketId = roomObj[r].guestSocketId

\* C14: an attack of the current player while the attacker or the defender has
\* no active card is answered with one error to the attacker and changes no
\* game-state (no hp, score, active or turn) and no room.
C14_AttackNeedsActives ==
  [][\A s \in Sockets :
       \A r \in SeqToSet(rooms) :
         (/\ IsTurnOf(s, r)
          /\ NoActive(AttackerActive(s, r)) \/ NoActive(DefenderActive(s, r))
          /\ Attack(s, JSNum(r)))
           => /\ RejectedStep(s)
              /\ out'[1].payload.event = "attack"]_vars

\* the current player, with an active card, was just refused an attack on an
\* opponent without one
C14_Witness ==
  \E r \in Started :
    /\ Len(out) = 1
    /\ out[1].event = "error"
    /\ out[1].payload.message = "L'adversaire n'a pas de carte active"
    /\ out[1].to = gameStates[r].currentPlayerSocketId
    /\ ~NoActive(AttackerActive(out[1].to, r))
    /\ gameStates[r].hostScore + gameStates[r].guestScore > 0

\* ------------------------------------------------------------------------
\* drawCards
\* ------------------------------------------------------------------------
Min(a, b) == IF a <= b THEN a ELSE b
ActorDeck(s, r, gs) == IF ActorIsHost(s, r) THEN gs[r].hostDeck ELSE gs[r].guestDeck
ActorHand(s, r, gs) == IF ActorIsHost(s, r) THEN gs[r].hostHand ELSE gs[r].guestHand
ActorActive(s, r, gs) == IF ActorIsHost(s, r) THEN gs[r].hostActive ELSE gs[r].guestActive

\* the fields of a game-state that belong to the opponent of s, the scores and the turn
OpponentSide(s, r, gs) ==
  IF ActorIsHost(s, r)
    THEN <<gs[r].guestDeck, gs[r].guestHand, gs[r].guestActive, gs[r].hostScore,
           gs[r].guestScore, gs[r].currentPlayerSocketId>>
    ELSE <<gs[r].hostDeck, gs[r].hostHand, gs[r].hostActive, gs[r].hostScore,
           gs[r].guestScore, gs[r].currentPlayerSocketId>>

\* decks and hands, short enough for the deck to run out before the hand is full
SmallDecks == {<<>>, <<11>>, <<11, 12>>, <<11, 12, 13>>}
SmallHands == {<<>>, <<1>>, <<1, 2>>, <<1, 2, 3>>, <<1, 2, 3, 4>>, <<1, 2, 3, 4, 5>>}

\* newDeck and newHand are oldDeck and oldHand after the cards were moved one by
\* one from the tail of the deck to the end of the hand
DrawnFrom(oldDeck, oldHand, newDeck, newHand) ==
  LET k == Len(newHand) - Len(oldHand)
  IN /\ Len(newHand) = Min(HAND_MAX, Len(oldHand) + Len(oldDeck))
     /\ k >= 0
     /\ newDeck = SubSeq(oldDeck, 1, Len(oldDeck) - k)
     /\ newHand = oldHand \o [i \in 1..k |-> oldDeck[Len(oldDeck) + 1 - i]]

\* C15: a drawCards of the current player moves cards one by one from the tail
\* of the actor's deck to the end of the actor's hand until the hand has 5 cards
\* or the deck is empty: hand size = min(5, old hand + old deck), the deck left
\* is a prefix of the old deck; the turn, the scores, the actives and the
\* opponent's deck and hand are unchanged.  The loop is checked as well on
\* decks that run out before the hand is full.
C15_DrawEffect ==
  [][\A s \in Sockets :
       \A r \in SeqToSet(rooms) :
         (IsTurnOf(s, r) /\ DrawCards(s, JSNum(r)))
           => /\ r \in DOMAIN gameStates'
              /\ DrawnFrom(ActorDeck(s, r, gameStates), ActorHand(s, r, gameStates),
                           ActorDeck(s, r, gameStates'), ActorHand(s, r, gameStates'))
              /\ ActorActive(s, r, gameStates') = ActorActive(s, r, gameStates)
              /\ OpponentSide(s, r, gameStates') = OpponentSide(s, r, gameStates)
              /\ rooms' = rooms
              /\ roomObj' = roomObj
              /\ \A deck \in SmallDecks, hand \in SmallHands :
                   DrawnFrom(deck, hand, DrawLoop(deck, hand).deck, DrawLoop(deck, hand).hand)]_vars

\* the host has refilled a hand to 5 from a deck in which the cards differ,
\* after cards were played and knocked out
C15_Witness ==
  \E r \in Started :
    /\ Len(out) = 2
    /\ out[1].event = "gameStateUpdated"
    /\ gameStates[r].currentPlayerSocketId = roomObj[r].hostSocketId
    /\ Len(gameStates[r].hostHand) = HAND_MAX
    /\ Len(gameStates[r].hostDeck) = DECK_SIZE - HAND_MAX - 2
    /\ gameStates[r].hostHand[HAND_MAX].id # gameStates[r].hostHand[1].id
    /\ gameStates[r].guestScore = 1

\* the loop of drawCards moves nothing from this deck to this hand
Saturated(deck, hand) == DrawLoop(deck, hand) = [deck |-> deck, hand |-> hand]

\* C16: a drawCards of the current player whose hand has 5 cards or whose deck
\* is empty leaves every game-state unchanged; after any drawCards of the
\* current player it is still that player's turn and the loop of a second
\* drawCards moves no card.  The same is checked on decks that run out before
\* the hand is full.
C16_DrawIdempotent ==
  [][\A s \in Sockets :
       \A r \in SeqToSet(rooms) :
         (IsTurnOf(s, r) /\ DrawCards(s, JSNum(r)))
           => /\ (\/ Len(ActorHand(s, r, gameStates)) = HAND_MAX
                  \/ Len(ActorDeck(s, r, gameStates)) = 0)
                   => gameStates' = gameStates
              /\ r \in DOMAIN gameStates'
              /\ gameStates'[r].currentPlayerSocketId = s
              /\ Saturated(ActorDeck(s, r, gameStates'), ActorHand(s, r, gameStates'))
              /\ \A deck \in SmallDecks, hand \in SmallHands :
                   /\ Saturated(DrawLoop(deck, hand).deck, DrawLoop(deck, hand).hand)
                   /\ (Len(hand) = HAND_MAX \/ Len(deck) = 0) => Saturated(deck, hand)]_vars

\* the guest, whose hand is full and who has a card on the field, was just
\* sent the state of a drawCards
C16_Witness ==
  \E r \in Started :
    /\ Len(out) = 2
    /\ out[2].event = "gameStateUpdated"
    /\ gameStates[r].currentPlayerSocketId = roomObj[r].guestSocketId
    /\ Len(gameStates[r].guestHand) = HAND_MAX
    /\ Len(gameStates[r].guestDeck) = DECK_SIZE - HAND_MAX - 1
    /\ ~NoActive(gameStates[r].guestActive)

\* ------------------------------------------------------------------------
\* playCard
\* ------------------------------------------------------------------------
\* C17: a playCard(k) of the current player with no active card and
\* 0 <= k < hand length removes exactly the card at k from the actor's hand,
\* keeps the order of the other hand cards, makes the removed card the actor's
\* active, and leaves the turn, both decks, both scores and the opponent's hand
\* and active unchanged.
C17_PlayEffect ==
  [][\A s \in Sockets :
       \A r \in SeqToSet(rooms) :
         \A k \in 0..(HAND_MAX - 1) :
           (/\ IsTurnOf(s, r)
            /\ ActorActive(s, r, gameStates) = NoCard
            /\ k < Len(ActorHand(s, r, gameStates))
            /\ PlayCard(s, JSNum(r), JSNum(k)))
             => LET oldHand == ActorHand(s, r, gameStates)
                    newHand == ActorHand(s, r, gameStates')
                IN /\ r \in DOMAIN gameStates'
                   /\ Len(newHand) = Len(oldHand) - 1
                   /\ \A j \in 1..k : newHand[j] = oldHand[j]
                   /\ \A j \in (k + 1)..Len(newHand) : newHand[j] = oldHand[j + 1]
                   /\ ActorActive(s, r, gameStates') = oldHand[k + 1]
                   /\ ActorDeck(s, r, gameStates') = ActorDeck(s, r, gameStates)
                   /\ OpponentSide(s, r, gameStates') = OpponentSide(s, r, gameStates)
                   /\ rooms' = rooms
                   /\ roomObj' = roomObj]_vars

\* the host has just played the one card of its hand that differs from the
\* others, and the four others are still in hand
C17_Witness ==
  \E r \in Started :
    /\ Len(out) = 2
    /\ out[1].event = "gameStateUpdated"
    /\ gameStates[r].currentPlayerSocketId = roomObj[r].hostSocketId
    /\ ~NoActive(gameStates[r].hostActive)
    /\ gameStates[r].hostActive = CardTable[3]
    /\ Len(gameStates[r].hostHand) = HAND_MAX - 1
    /\ \A j \in DOMAIN gameStates[r].hostHand : gameStates[r].hostHand[j] = CardTable[1]

\* the cardIndex values that are numbers, and their integer part
NumericIndexes == {i \in InputCardIndexes : i.t \in {"number", "fraction"}}

\* C18: a playCard of the current player is answered with one error and changes
\* nothing when the actor has an active card (whatever the index), or when the
\* index is a negative number or a number >= the actor's hand length (an empty
\* hand included); no playCard step changes an active card that is on the field.
\* (Stated by contraposition: a step that is not such a rejection is no
\* playCard of that kind, and a step that changes a card on the field is no
\* playCard.)
C18_PlayRejected ==
  [][\A s \in Sockets :
       \A r \in SeqToSet(rooms) :
         \A i \in InputCardIndexes :
           /\ (/\ IsTurnOf(s, r)
               /\ \/ ActorActive(s, r, gameStates) # NoCard
                  \/ i \in NumericIndexes /\ i.n < 0
                  \/ i \in NumericIndexes /\ i.n >= Len(ActorHand(s, r, gameStates))
               /\ ~(RejectedStep(s) /\ out'[1].payload.event = "playCard"))
                => ~PlayCard(s, JSNum(r), i)
           /\ (/\ r \in Started
               /\ \/ r \notin DOMAIN gameStates'
                  \/ /\ gameStates[r].hostActive # NoCard
                     /\ gameStates'[r].hostActive # gameStates[r].hostActive
                  \/ /\ gameStates[r].guestActive # NoCard
                     /\ gameStates'[r].guestActive # gameStates[r].guestActive)
                => ~PlayCard(s, JSNum(r), i)]_vars

\* the current player, with a card on the field and cards in hand, was just
\* refused a playCard
C18_Witness ==
  \E r \in Started :
    /\ Len(out) = 1
    /\ out[1].event = "error"
    /\ out[1].payload.message = "Vous avez deja une carte active sur le terrain"
    /\ out[1].to = gameStates[r].currentPlayerSocketId
    /\ ActorActive(out[1].to, r, gameStates) \in {CardTable[c] : c \in DOMAIN CardTable}
    /\ Len(ActorHand(out[1].to, r, gameStates)) > 0

\* the cardIndex values that are no finite integer and no string denoting one
NonIntegerIndexes == {JSUndefined, JSNull, JSStr("abc"), JSFraction(0), JSFraction(-1)}

\* C19: a playCard whose cardIndex is not a finite integer (missing, null, a
\* non-numeric string, a fractional number) is answered with one error and
\* changes no room and no game-state.
C19_NonIntegerIndexRejected ==
  [][\A s \in Sockets :
       \A r \in FirstRoomId..(FirstRoomId + MaxRooms) :
         \A i \in NonIntegerIndexes :
           ~RejectedStep(s) => ~PlayCard(s, JSNum(r), i)]_vars

\* ------------------------------------------------------------------------
\* Requests on rooms without a started match
\* ------------------------------------------------------------------------
\* the roomId values that are missing or denote no room id
MalformedRoomIds == {JSUndefined, JSNull, JSStr("abc"), JSStr(""), JSNum(0)}

\* the room id a well-formed roomId denotes
RoomIdOf(rid) == IF rid.t = "string" THEN 1 ELSE rid.n

\* roomId names no room with a match under way
NoMatchFor(rid) ==
  \/ rid \in MalformedRoomIds
  \/ RoomIdOf(rid) \notin SeqToSet(rooms)
  \/ roomObj[RoomIdOf(rid)].status = "waiting"
  \/ RoomIdOf(rid) \notin DOMAIN gameStates

\* C20: a drawCards, playCard, attack or endTurn whose roomId is missing,
\* non-numeric, unknown to the registry or names a room whose match has not
\* started (waiting, or without a game-state) is answered with one error to
\* the sender and changes no room and no game-state.  (By contraposition: a
\* step that is not such a rejection is none of these requests.)
C20_BadRoomRejected ==
  [][\A s \in Sockets :
       \A rid \in InputRoomIds :
         (IsConnected(s) /\ ~RejectedStep(s) /\ NoMatchFor(rid))
           => /\ ~DrawCards(s, rid)
              /\ \A i \in InputCardIndexes : ~PlayCard(s, rid, i)
              /\ ~Attack(s, rid)
              /\ ~EndTurn(s, rid)]_vars

\* a request on the room was just refused while the room waits for a guest
C20_Witness ==
  /\ Len(out) = 1
  /\ out[1].event = "error"
  /\ out[1].payload.message = "Room introuvable ou partie non demarree"
  /\ out[1].to \in Sockets
  /\ rooms = <<FirstRoomId>>
  /\ roomObj[FirstRoomId].status = "waiting"
  /\ conn[roomObj[FirstRoomId].hostSocketId] = "open"

\* ------------------------------------------------------------------------
\* endTurn
\* ------------------------------------------------------------------------
\* the other participant of room r, as seen from session s
Opponent(s, r) ==
  IF s = roomObj[r].hostSocketId THEN roomObj[r].guestSocketId ELSE roomObj[r].hostSocketId

\* C21: an endTurn of the current player s makes the opponent of s the current
\* player and changes nothing else (no other field of the game-state, no other
\* game-state, no room); the opponent's opponent is s again, so that an endTurn
\* of the new current player restores the game-state the first one started from.
C21_EndTurnFlips ==
  [][\A s \in Sockets :
       \A r \in SeqToSet(rooms) :
         (IsTurnOf(s, r) /\ EndTurn(s, JSNum(r)))
           => /\ gameStates' =
                   [gameStates EXCEPT ![r].currentPlayerSocketId = Opponent(s, r)]
              /\ rooms' = rooms
              /\ roomObj' = roomObj
              /\ Opponent(Opponent(s, r), r) = s]_vars

\* ------------------------------------------------------------------------
\* createRoom
\* ------------------------------------------------------------------------
\* the createRoom handler of session s completes in this step
CreateRoomReturns(s) == pending[s].op = "createRoom" /\ pending'[s] = Idle

AllocatedIds == FirstRoomId..(nextRoomId - 1)

\* C22: a createRoom that succeeds stores a new room, waiting and without
\* guest, hosted by the requester, under an id greater than every id allocated
\* before, and emits roomCreated to the host and then a roomsListUpdated
\* broadcast that lists the new room; a createRoom that fails allocates no id;
\* an id enters the registry only in this way, and the counter never decreases,
\* so that no id is used twice, also after rooms were deleted.
C22_CreateAllocatesFreshId ==
  [][/\ nextRoomId' >= nextRoomId
     /\ \A r \in SeqToSet(rooms) : r \in AllocatedIds
     /\ \A r \in SeqToSet(rooms') \ SeqToSet(rooms) :
          /\ r \notin AllocatedIds
          /\ \E s \in Sockets : CreateRoomReturns(s)
     /\ \A s \in Sockets :
          CreateRoomReturns(s)
            => IF Len(out') = 1
                 THEN /\ out'[1].event = "error"
                      /\ nextRoomId' = nextRoomId
                      /\ rooms' = rooms
                 ELSE LET id == nextRoomId
                      IN /\ \A r \in AllocatedIds : id > r
                         /\ nextRoomId' = id + 1
                         /\ rooms' = Append(rooms, id)
                         /\ id \notin SeqToSet(rooms)
                         /\ roomObj'[id].id = id
                         /\ roomObj'[id].status = "waiting"
                         /\ roomObj'[id].hostSocketId = s
                         /\ roomObj'[id].hostUserId = socketUser[s]
                         /\ roomObj'[id].guestSocketId = NoSocket
                         /\ roomObj'[id].guestUserId = NoUser
                         /\ Len(out') = 2
                         /\ out'[1].to = s
                         /\ out'[1].event = "roomCreated"
                         /\ out'[1].payload.id = id
                         /\ out'[2].to = Everyone
                         /\ out'[2].event = "roomsListUpdated"
                         /\ \E k \in DOMAIN out'[2].payload : out'[2].payload[k].id = id]_vars

\* the third room was just created after the first two were deleted
C22_Witness ==
  /\ rooms = <<FirstRoomId + 2>>
  /\ nextRoomId = FirstRoomId + 3
  /\ Len(out) = 2
  /\ out[1].event = "roomCreated"
  /\ out[1].payload.id = FirstRoomId + 2
  /\ out[2].event = "roomsListUpdated"
  /\ Len(out[2].payload) = 1

\* the deck of this id cannot host a room of session s: it does not exist, it
\* belongs to another user, or it does not hold 10 cards
UnusableDeck(s, id) ==
  \/ id \notin DeckIds
  \/ decks[id] = DbNull
  \/ decks[id].userId # socketUser[s]
  \/ Len(decks[id].deckCards) # 10

\* the step answers s with one createRoom error, emits nothing else, and
\* leaves the registry, the waiting list and the counter as they were
CreateRefused(s) ==
  /\ Len(out') = 1
  /\ out'[1].to = s
  /\ out'[1].event = "error"
  /\ out'[1].payload.event = "createRoom"
  /\ rooms' = rooms
  /\ \A r \in SeqToSet(rooms) : roomObj'[r] = roomObj[r]
  /\ getWaitingRooms(rooms', roomObj') = getWaitingRooms(rooms, roomObj)
  /\ nextRoomId' = nextRoomId
  /\ gameStates' = gameStates

\* C23: a createRoom whose deckId is missing or non-numeric, or whose deck does
\* not exist, belongs to another user or does not hold 10 cards when the
\* repository answers, replies with one error to the requester: no room is
\* added, the waiting list is unchanged and nothing is broadcast.
C23_CreateRefused ==
  [][\A s \in Sockets :
       /\ \A d \in {JSUndefined, JSStr("abc")} :
            CreateRoomCall(s, d) => (CreateRefused(s) /\ pending'[s] = Idle)
       /\ (CreateRoomReturns(s) /\ UnusableDeck(s, pending[s].deckId))
            => CreateRefused(s)]_vars

\* a createRoom was just refused for a deck whose cards are being rewritten,
\* while another room waits
C23_Witness ==
  /\ Len(out) = 1
  /\ out[1].event = "error"
  /\ out[1].payload.event = "createRoom"
  /\ out[1].payload.message = "Le deck doit contenir exactement 10 cartes"
  /\ Len(rooms) = 1
  /\ \E d \in DeckIds : decks[d] # DbNull /\ decks[d].deckCards = <<>>

\* ------------------------------------------------------------------------
\* Room records
\* ------------------------------------------------------------------------
\* C24: in the registry a waiting room has no guest field set and an in-game
\* room has its guest session id, guest user id and guest deck id set; a room
\* that is in-game is in-game for as long as it is registered.
C24_StatusAndGuest ==
  [][/\ \A r \in SeqToSet(rooms') :
          /\ roomObj'[r].status \in {"waiting", "in-game"}
          /\ roomObj'[r].status = "waiting"
               => /\ roomObj'[r].guestSocketId = NoSocket
                  /\ roomObj'[r].guestUserId = NoUser
                  /\ roomObj'[r].guestDeckId = 0
                  /\ roomObj'[r].guestUsername = "undefined"
          /\ roomObj'[r].status = "in-game"
               => /\ roomObj'[r].guestSocketId \in Sockets
                  /\ roomObj'[r].guestUserId \in Users
                  /\ roomObj'[r].guestDeckId \in DeckIds
     /\ \A r \in SeqToSet(rooms) \cap SeqToSet(rooms') :
          roomObj[r].status = "in-game" => roomObj'[r].status = "in-game"]_vars

\* one room is in-game with its guest recorded while another one waits
C24_Witness ==
  /\ Len(rooms) = 2
  /\ roomObj[rooms[1]].status = "in-game"
  /\ roomObj[rooms[1]].guestSocketId \in Sockets
  /\ roomObj[rooms[1]].guestDeckId \in DeckIds
  /\ roomObj[rooms[2]].status = "waiting"
  /\ rooms[1] \in DOMAIN gameStates

\* ------------------------------------------------------------------------
\* Waiting list
\* ------------------------------------------------------------------------
WaitingIds == {r \in SeqToSet(rooms) : roomObj[r].status = "waiting"}

\* C25: the payload of every roomsList reply and of every roomsListUpdated
\* broadcast holds exactly the rooms that are waiting, each once, in ascending
\* order of room id, with the id, host name and host user of the room.
C25_ListIsWaitingRooms ==
  \A i \in DOMAIN out :
    out[i].event \in {"roomsList", "roomsListUpdated"}
      => LET list == out[i].payload
         IN /\ {list[k].id : k \in DOMAIN list} = WaitingIds
            /\ Len(list) = Cardinality(WaitingIds)
            /\ \A k \in DOMAIN list : \A l \in DOMAIN list : k < l => list[k].id < list[l].id
            /\ \A k \in DOMAIN list :
                 /\ list[k].hostUsername = roomObj[list[k].id].hostUsername
                 /\ list[k].hostUserId = roomObj[list[k].id].hostUserId

\* getRooms was just answered with the two waiting rooms while an older room
\* is in-game
C25_Witness ==
  /\ Len(out) = 1
  /\ out[1].event = "roomsList"
  /\ Len(out[1].payload) = 2
  /\ Len(rooms) = 3
  /\ roomObj[rooms[1]].status = "in-game"

\* ------------------------------------------------------------------------
\* joinRoom, start of the match
\* ------------------------------------------------------------------------
\* the joinRoom handler of session s completes in this step with gameStarted
JoinSucceeds(s) ==
  /\ pending[s].op = "joinRoom"
  /\ pending'[s] = Idle
  /\ \E i \in DOMAIN out' : out'[i].event = "gameStarted" /\ out'[i].to = s

\* seq is an arrangement of the game cards of the deck row
IsDeckOf(seq, deck) ==
  /\ Len(seq) = DECK_SIZE
  /\ deck # DbNull
  /\ \A c \in DOMAIN CardTable :
       Cardinality({i \in DOMAIN seq : seq[i] = CardTable[c]}) = CountIds(deck.deckCards, c)

\* C26: a joinRoom that succeeds leaves the room registered and in-game, with a
\* game-state whose hands are empty, whose actives are null, whose scores are
\* 0, whose decks hold the 10 cards of the host's deck and of the joiner's
\* deck, and whose current player is the host's session; it emits gameStarted
\* with role host to the host, a live session, and with role guest to the
\* joiner, and a roomsListUpdated broadcast that does not list the room.
C26_JoinStartsMatch ==
  [][\A s \in Sockets :
       JoinSucceeds(s)
         => LET r == pending[s].roomId
            IN /\ r \in SeqToSet(rooms')
               /\ roomObj'[r].status = "in-game"
               /\ IsConnected(roomObj'[r].hostSocketId)
               /\ r \in DOMAIN gameStates'
               /\ gameStates'[r].hostHand = <<>>
               /\ gameStates'[r].guestHand = <<>>
               /\ gameStates'[r].hostActive = NoCard
               /\ gameStates'[r].guestActive = NoCard
               /\ gameStates'[r].hostScore = 0
               /\ gameStates'[r].guestScore = 0
               /\ gameStates'[r].currentPlayerSocketId = roomObj'[r].hostSocketId
               /\ IsDeckOf(gameStates'[r].hostDeck, decks[roomObj'[r].hostDeckId])
               /\ IsDeckOf(gameStates'[r].guestDeck, decks[pending[s].deckId])
               /\ Len(out') = 3
               /\ out'[1].event = "gameStarted"
               /\ out'[1].to = roomObj'[r].hostSocketId
               /\ out'[1].payload.you.role = "host"
               /\ out'[2].event = "gameStarted"
               /\ out'[2].to = s
               /\ out'[2].payload.you.role = "guest"
               /\ out'[3].event = "roomsListUpdated"
               /\ out'[3].to = Everyone
               /\ \A k \in DOMAIN out'[3].payload : out'[3].payload[k].id # r]_vars

\* ------------------------------------------------------------------------
\* shuffle
\* ------------------------------------------------------------------------
SeqRange(seq) == {seq[i] : i \in DOMAIN seq}
Occurrences(seq, x) == Cardinality({i \in DOMAIN seq : seq[i] = x})
IsPermutationOf(a, b) ==
  /\ Len(a) = Len(b)
  /\ \A x \in SeqRange(a) \cup SeqRange(b) : Occurrences(a, x) = Occurrences(b, x)

\* C27: at the start of a match each deck of the game-state is a permutation
\* of the 10 cards read from the repository for that player: same length and
\* same cards with the same multiplicities, whatever Math.random returned.
C27_ShuffleIsPermutation ==
  [][\A s \in Sockets :
       JoinSucceeds(s)
         => LET r == pending[s].roomId
                hostCards == toGameCards(decks[roomObj[r].hostDeckId].deckCards)
                guestCards == toGameCards(pending[s].deck.deckCards)
            IN /\ Len(gameStates'[r].hostDeck) = DECK_SIZE
               /\ Len(gameStates'[r].guestDeck) = DECK_SIZE
               /\ IsPermutationOf(gameStates'[r].hostDeck, hostCards)
               /\ IsPermutationOf(gameStates'[r].guestDeck, guestCards)]_vars

\* a match has started on decks whose order differs from the repository's
C27_Witness ==
  \E r \in DOMAIN gameStates :
    /\ Len(gameStates[r].hostDeck) = DECK_SIZE
    /\ Len(gameStates[r].guestDeck) = DECK_SIZE
    /\ gameStates[r].hostDeck # toGameCards(VariedDecks[1].deckCards)
    /\ gameStates[r].guestDeck # toGameCards(VariedDecks[2].deckCards)
    /\ Cardinality(SeqRange(gameStates[r].hostDeck)) > 1

\* ------------------------------------------------------------------------
\* Views emitted after an action
\* ------------------------------------------------------------------------
\* a drawCards, playCard, attack or endTurn request of s on room r, for every
\* card index a specification sends
AnyGameRequest(s, r) ==
  \/ DrawCards(s, JSNum(r))
  \/ \E i \in CardIndexInputs \cup MatchCardIndexInputs : PlayCard(s, JSNum(r), i)
  \/ Attack(s, JSNum(r))
  \/ EndTurn(s, JSNum(r))

\* the emissions of a step that acted on room r: the two views of the game-state
\* it left, or, when it ended the match, gameEnded with the scores it left
ViewsOfResult(s, r) ==
  LET host == roomObj[r].hostSocketId
      guest == roomObj[r].guestSocketId
  IN IF r \in DOMAIN gameStates'
       THEN out' = <<Msg(host, "gameStateUpdated",
                         buildGameStateView(r, gameStates'[r], "host")),
                     Msg(guest, "gameStateUpdated",
                         buildGameStateView(r, gameStates'[r], "guest"))>>
       ELSE /\ Len(out') = 2
            /\ out'[1].to = host
            /\ out'[2].to = guest
            /\ \A i \in 1..2 :
                 /\ out'[i].event = "gameEnded"
                 /\ out'[i].payload.roomId = r
                 /\ out'[i].payload.hostScore =
                      IF ActorIsHost(s, r) THEN AttackerScore(s, r) + 1 ELSE DefenderScore(s, r)
                 /\ out'[i].payload.guestScore =
                      IF ActorIsHost(s, r) THEN DefenderScore(s, r) ELSE AttackerScore(s, r) + 1

\* C28: a drawCards, playCard, attack or endTurn of the current player that is
\* not rejected sends one message to the host and one to the guest of the room:
\* gameStateUpdated carrying the host's and the guest's view of the game-state
\* as the action left it, or, when the attack ended the match, gameEnded with
\* the scores as the attack left them.
C28_ViewsFollowAction ==
  [][\A s \in Sockets :
       \A r \in SeqToSet(rooms) :
         (IsTurnOf(s, r) /\ ~RejectedStep(s) /\ ~ViewsOfResult(s, r))
           => ~AnyGameRequest(s, r)]_vars

\* ------------------------------------------------------------------------
\* Handshake
\* ------------------------------------------------------------------------
\* the connection handler has run for s: its handlers are registered
Admitted(s) == conn[s] \in {"open", "closed"}

\* nothing in the server refers to session s
Untouched(s) ==
  /\ pending'[s] = Idle
  /\ socketUser'[s] = NoUser
  /\ \A r \in SeqToSet(rooms') :
       roomObj'[r].hostSocketId # s /\ roomObj'[r].guestSocketId # s
  /\ \A r \in DOMAIN gameStates' : gameStates'[r].currentPlayerSocketId # s
  /\ \A i \in DOMAIN out' : out'[i].to # s

\* C29: a handshake without a token, or with a token that fails verification,
\* is rejected, and a rejected session stays rejected; a session that is not
\* admitted has no handler running, hosts and joins no room, is the current
\* player of no match and is the addressee of no message; a handshake with a
\* valid token admits the session with the userId decoded from that token, and
\* an admitted session keeps it.
C29_AuthGatesEvents ==
  [][\A s \in Sockets :
       /\ \A token \in Tokens :
            Connect(s, token)
              => IF token = "none" \/ jwtVerify(token) = NoUser
                   THEN conn'[s] = "rejected" /\ socketUser'[s] = NoUser
                   ELSE conn'[s] = "open" /\ socketUser'[s] = jwtVerify(token)
       /\ conn[s] = "rejected" => conn'[s] = "rejected"
       /\ conn'[s] \in {"new", "rejected"} => Untouched(s)
       /\ conn'[s] \in {"open", "closed"} => socketUser'[s] \in {jwtVerify("t1"), jwtVerify("t2")}
       /\ Admitted(s) => socketUser'[s] = socketUser[s]]_vars

\* one session was rejected for a missing or invalid token while an admitted
\* one hosts a room and has just been answered
C29_Witness ==
  \E s, h \in Sockets :
    /\ conn[s] = "rejected"
    /\ IsConnected(h)
    /\ \E r \in SeqToSet(rooms) : roomObj[r].hostSocketId = h
    /\ \E i \in DOMAIN out : out[i].to = h

\* ------------------------------------------------------------------------
\* HTTP authentication
\* ------------------------------------------------------------------------
\* the request carries 'Bearer ' followed by a non-empty token that verifies
BearerVerifies(req) ==
  /\ req.headers # JSUndefined
  /\ req.headers.authorization # JSUndefined
  /\ LET h == req.headers.authorization.c
     IN /\ Len(h) > Len(BearerPrefix)
        /\ \A i \in DOMAIN BearerPrefix : h[i] = BearerPrefix[i]
        /\ verify([i \in 1..(Len(h) - Len(BearerPrefix)) |-> h[i + Len(BearerPrefix)]]).t
             = "payload"

Passed(x) ==
  /\ x.outcome.nextCalls = 1
  /\ x.outcome.res = <<>>
  /\ x.outcome.user # JSUndefined

Refused(x) ==
  /\ x.outcome.nextCalls = 0
  /\ x.outcome.user = JSUndefined
  /\ Len(x.outcome.res) = 1
  /\ x.outcome.res[1].status \in {UNAUTHORIZED, INTERNAL_SERVER_ERROR}

\* C30: every request handled by authenticateToken has exactly one outcome.
\* Either next was called once, no response was sent and req.user holds the
\* userId and email of the token: this happens if and only if the
\* Authorization header starts with 'Bearer ', a non-empty token follows and
\* the token verifies.  Or one response was sent, with status 401, or 500 when
\* the headers could not be read, next was not called and req.user is not set.
C30_OneOutcome ==
  \A k \in DOMAIN http :
    LET x == http[k] IN
      /\ Passed(x) \/ Refused(x)
      /\ Passed(x) <=> BearerVerifies(x.req)
      /\ Passed(x) =>
           LET decoded == verify(substring(x.req.headers.authorization.c, 7))
           IN x.outcome.user = [userId |-> decoded.userId, email |-> decoded.email]
      /\ Refused(x) =>
           (x.outcome.res[1].status = INTERNAL_SERVER_ERROR <=> x.req.headers = JSUndefined)

\* a request with a valid bearer token went through, and a request with the
\* same token under a lower-case scheme was answered 401
C30_Witness ==
  /\ Len(http) = 2
  /\ BearerVerifies(http[1].req)
  /\ Passed(http[1])
  /\ http[1].outcome.user.userId = JSNum(1)
  /\ http[2].req.headers # JSUndefined
  /\ http[2].req.headers.authorization = Chars(LowerBearer \o <<"t", "1">>)
  /\ Refused(http[2])
  /\ http[2].outcome.res[1].status = UNAUTHORIZED

\* ------------------------------------------------------------------------
\* Rooms and game-states of closed sessions
\* ------------------------------------------------------------------------
\* C33: the host session of every waiting room of the registry is a live
\* session; in particular a createRoom handler that resumes after its session
\* closed registers no room, and every room listed by getRooms or
\* roomsListUpdated is hosted by a live session.
C33_WaitingHostIsLive ==
  /\ \A r \in SeqToSet(rooms) :
       roomObj[r].status = "waiting" => IsConnected(roomObj[r].hostSocketId)
  /\ \A i \in DOMAIN out :
       out[i].event \in {"roomsList", "roomsListUpdated"}
         => \A k \in DOMAIN out[i].payload :
              IsConnected(roomObj[out[i].payload[k].id].hostSocketId)

\* C34: every key of the game-state table is the id of a room of the registry
\* whose status is in-game and whose host and guest sessions are both live.
C34_NoOrphanGameState ==
  \A r \in DOMAIN gameStates :
    /\ r \in SeqToSet(rooms)
    /\ roomObj[r].status = "in-game"
    /\ IsConnected(roomObj[r].hostSocketId)
    /\ IsConnected(roomObj[r].guestSocketId)

\* ------------------------------------------------------------------------
\* The room of a match that has ended
\* ------------------------------------------------------------------------
\* room r is registered in-game, holds no game-state and no joinRoom handler
\* is working on it: its match is over
EndedRoom(r, rms, objs, gs, pend) ==
  /\ r \in SeqToSet(rms)
  /\ objs[r].status = "in-game"
  /\ r \notin DOMAIN gs
  /\ \A s \in Sockets : pend[s].op = "joinRoom" => pend[s].roomId # r

HostCards(gs) == CardsOf(gs.hostDeck, gs.hostHand, gs.hostActive)
GuestCards(gs) == CardsOf(gs.guestDeck, gs.guestHand, gs.guestActive)

\* the step emits gameStarted for room r: a match begins
StartsMatch(r) ==
  \E i \in DOMAIN out' : out'[i].event = "gameStarted" /\ out'[i].payload.roomId = r

\* C36: every card of a game-state a step creates or changes has the attack
\* and the type of its catalogue card and at most its hp, and the cards of the
\* decks and of the hands have exactly its hp.  A step that does not start a
\* match either leaves each player's cards (deck,
\* hand and active together, hp included) the same, or it is an attack of the
\* current player: then the attacker's deck, hand and active and the
\* defender's deck and hand are unchanged, and the defender's active is either
\* removed or the same card with a smaller hp.
C36_CardStatsFrame ==
  [][\A r \in DOMAIN gameStates' :
       LET g == gameStates[r]
           h == gameStates'[r]
       IN \/ r \in DOMAIN gameStates /\ h = g
          \/ /\ \A c \in SeqRange(HostCards(h)) \cup SeqRange(GuestCards(h)) :
                  /\ c.attack = CardTable[c.id].attack
                  /\ c.type = CardTable[c.id].type
                  /\ c.hp <= CardTable[c.id].hp
             /\ \A c \in SeqRange(h.hostDeck \o h.hostHand \o h.guestDeck \o h.guestHand) :
                  c.hp = CardTable[c.id].hp
             /\ (r \in DOMAIN gameStates /\ ~StartsMatch(r)) =>
                  \/ /\ IsPermutationOf(HostCards(h), HostCards(g))
                     /\ IsPermutationOf(GuestCards(h), GuestCards(g))
                  \/ \E s \in Sockets :
                       /\ CanAttack(s, r)
                       /\ Attack(s, JSNum(r))
                       /\ h.hostDeck = g.hostDeck /\ h.hostHand = g.hostHand
                       /\ h.guestDeck = g.guestDeck /\ h.guestHand = g.guestHand
                       /\ IF ActorIsHost(s, r)
                            THEN /\ h.hostActive = g.hostActive
                                 /\ \/ h.guestActive = NoCard
                                    \/ /\ h.guestActive.hp < g.guestActive.hp
                                       /\ h.guestActive =
                                            [g.guestActive EXCEPT !.hp = h.guestActive.hp]
                            ELSE /\ h.guestActive = g.guestActive
                                 /\ \/ h.hostActive = NoCard
                                    \/ /\ h.hostActive.hp < g.hostActive.hp
                                       /\ h.hostActive =
                                            [g.hostActive EXCEPT !.hp = h.hostActive.hp]]_vars

\* an attack has left the defender's active on the field with less hp than its
\* catalogue card, while the attacker's active is itself a damaged card
C36_Witness ==
  \E r \in Started :
    /\ ~NoActive(gameStates[r].hostActive)
    /\ ~NoActive(gameStates[r].guestActive)
    /\ gameStates[r].hostActive.hp < CardTable[gameStates[r].hostActive.id].hp
    /\ gameStates[r].guestActive.hp < CardTable[gameStates[r].guestActive.id].hp
    /\ Len(out) = 2
    /\ out[1].event = "gameStateUpdated"

\* ------------------------------------------------------------------------
\* The turn of a live match
\* ------------------------------------------------------------------------
\* room r is registered with a game-state and its host and guest sessions are open
LiveMatch(r) ==
  /\ r \in Started \cap SeqToSet(rooms)
  /\ roomObj[r].guestSocketId # NoSocket
  /\ IsConnected(roomObj[r].hostSocketId)
  /\ IsConnected(roomObj[r].guestSocketId)

\* the step closes the session of the host or of the guest of room r
ParticipantCloses(r) ==
  \E s \in {roomObj[r].hostSocketId, roomObj[r].guestSocketId} :
    s \in Sockets /\ conn[s] = "open" /\ conn'[s] = "closed"

\* the step is an attack that brings a score of room r to WIN_SCORE
WinningAttack(r) ==
  \E s \in Sockets :
    /\ CanAttack(s, r)
    /\ KnocksOut(s, r)
    /\ AttackerScore(s, r) = WIN_SCORE - 1
    /\ Attack(s, JSNum(r))

\* C38: in a live match the current player is an open session and its endTurn
\* is accepted, whatever the hands, decks and actives: the turn passes to the
\* opponent; a game-state leaves the table only in an
\* attack that brings a score to 3 or when the host's or the guest's session
\* closes.
C38_TurnCanPass ==
  [][\A r \in DOMAIN gameStates :
       /\ LiveMatch(r) =>
            /\ IsConnected(gameStates[r].currentPlayerSocketId)
            /\ \A s \in Sockets :
                 (gameStates[r].currentPlayerSocketId = s /\ EndTurn(s, JSNum(r)))
                   => gameStates' =
                        [gameStates EXCEPT ![r].currentPlayerSocketId = Opponent(s, r)]
       /\ r \notin DOMAIN gameStates' => (ParticipantCloses(r) \/ WinningAttack(r))]_vars

\* ------------------------------------------------------------------------
\* Deck requests: two HTTP clients, user 1 owns deck 1 and user 2 owns deck 2
\* ------------------------------------------------------------------------
MaxDecks == 3

Ten == <<1, 2, 3, 4, 5, 6, 7, 8, 9, 10>>
OtherTen == <<2, 3, 4, 5, 6, 7, 8, 9, 10, 11>>
Nine == <<1, 2, 3, 4, 5, 6, 7, 8, 9>>
TenWithDuplicate == <<1, 1, 2, 3, 4, 5, 6, 7, 8, 9>>
TenWithUnknown == <<1, 2, 3, 4, 5, 6, 7, 8, 9, NumCards + 1>>

\* decks as createDeck stores them
ApiDecks ==
  [d \in DeckIds |->
     IF d = 1
       THEN [id |-> 1, userId |-> 1, username |-> UserName(1), name |-> "Starter Deck",
             deckCards |-> Ten]
       ELSE [id |-> 2, userId |-> 2, username |-> UserName(2), name |-> "Starter Deck",
             deckCards |-> OtherTen]]

InitDecks ==
  /\ conn = [s \in Sockets |-> "new"]
  /\ socketUser = [s \in Sockets |-> NoUser]
  /\ rooms = <<>>
  /\ roomObj = <<>>
  /\ gameStates = <<>>
  /\ nextRoomId = FirstRoomId
  /\ pending = [s \in Sockets |-> Idle]
  /\ decks = ApiDecks
  /\ out = <<>>
  /\ http = <<>>
  /\ api = [c \in Clients |-> ApiIdle]
  /\ users = InitialUsers

\* req.userId as authenticateToken leaves it for the requests of client c
UserIdsOf(c) == IF c = "c1" THEN {JSNum(1)} ELSE {JSUndefined, JSNum(1), JSNum(2)}
DeckIdParams == {"1", "2", "abc"}
\* request bodies {name, cards} of POST /api/decks and PATCH /api/decks/:id
CreateBodies ==
  {[name |-> JSStr("Misty"), cards |-> JSArray(Ten)],
   [name |-> JSUndefined, cards |-> JSArray(Ten)],
   [name |-> JSStr("Misty"), cards |-> JSUndefined],
   [name |-> JSStr("Misty"), cards |-> JSArray(Nine)],
   [name |-> JSStr("Misty"), cards |-> JSArray(TenWithUnknown)]}
UpdateBodies ==
  {[name |-> JSStr("Renamed"), cards |-> JSUndefined],
   [name |-> JSUndefined, cards |-> JSArray(OtherTen)],
   [name |-> JSUndefined, cards |-> JSArray(Nine)],
   [name |-> JSStr("Renamed"), cards |-> JSArray(TenWithDuplicate)]}

CreateInFlight ==
  \E c \in Clients : api[c].pc \in {"findMany", "create"} /\ api[c].req.op = "createDeck"

NextDecks ==
  \/ \E c \in Clients : \E userId \in UserIdsOf(c), body \in CreateBodies :
       /\ Cardinality(DOMAIN decks) < MaxDecks
       /\ ~CreateInFlight
       /\ CreateDeck(c, userId, body.name, body.cards)
  \/ \E c \in Clients, dbFails \in BOOLEAN : CreateDeckResumeCards(c, dbFails)
  \/ \E c \in Clients, dbFails \in BOOLEAN : CreateDeckResumeCreate(c, dbFails)
  \/ \E c \in Clients : \E userId \in UserIdsOf(c), id \in DeckIdParams :
       GetDeckById(c, userId, id)
  \/ \E c \in Clients, dbFails \in BOOLEAN : GetDeckByIdResume(c, dbFails)
  \/ \E c \in Clients : \E userId \in UserIdsOf(c) : GetMyDecks(c, userId)
  \/ \E c \in Clients, dbFails \in BOOLEAN : GetMyDecksResume(c, dbFails)
  \/ \E c \in Clients : \E userId \in UserIdsOf(c), id \in DeckIdParams, body \in UpdateBodies :
       UpdateDeck(c, userId, id, body.name, body.cards)
  \/ \E c \in Clients, dbFails \in BOOLEAN : UpdateDeckResumeFind(c, dbFails)
  \/ \E c \in Clients, dbFails \in BOOLEAN : UpdateDeckResumeCards(c, dbFails)
  \/ \E c \in Clients, dbFails \in BOOLEAN : UpdateDeckResumeDeleteMany(c, dbFails)
  \/ \E c \in Clients, dbFails \in BOOLEAN, unique \in BOOLEAN :
       UpdateDeckResumeUpdate(c, dbFails, unique)
  \/ \E c \in Clients : \E userId \in UserIdsOf(c), id \in DeckIdParams :
       DeleteDeck(c, userId, id)
  \/ \E c \in Clients, dbFails \in BOOLEAN : DeleteDeckResumeFind(c, dbFails)
  \/ \E c \in Clients, dbFails \in BOOLEAN : DeleteDeckResumeDelete(c, dbFails)

SpecDecks == InitDecks /\ [][NextDecks]_vars

\* C37: whenever no deck request is being handled, every stored deck holds
\* exactly 10 deck-cards, whatever createDeck, updateDeck and deleteDeck
\* requests were served before, failed and interleaved ones included.
NoDeckRequestInFlight == \A c \in Clients : api[c].pc \in {"idle", "sent"}

C37_StoredDecksHaveTenCards ==
  NoDeckRequestInFlight =>
    \A d \in DOMAIN decks : decks[d] # DbNull => Len(decks[d].deckCards) = DECK_SIZE

\* C31: a getDeckById, updateDeck or deleteDeck request of an authenticated
\* user on a stored deck of another user leaves every deck unchanged and is
\* answered at once, with 403 when the lookup of the deck succeeds; a stored
\* deck is changed or deleted only by a request of its owner, and a 200 answer
\* that carries decks goes to the owner of those decks.
OnDeckOfOtherUser(c) ==
  /\ api[c].pc = "findUnique"
  /\ deckRow(api[c].deckId) # DbNull
  /\ deckRow(api[c].deckId).userId # api[c].req.userId.n

DeckLookupSucceeds(c) ==
  GetDeckByIdResume(c, FALSE) \/ UpdateDeckResumeFind(c, FALSE) \/ DeleteDeckResumeFind(c, FALSE)

AnswersWithDeck(c) ==
  /\ api[c].pc \notin {"idle", "sent"}
  /\ api[c].req.op \in {"getDeckById", "updateDeck"}
  /\ api'[c].pc = "sent"
  /\ api'[c].status = OK

AnswersWithDecks(c) ==
  /\ api[c].pc = "findManyDecks"
  /\ api'[c].pc = "sent"
  /\ api'[c].status = OK

C31_OnlyOwnerReachesDeck ==
  [][\A c \in Clients :
       api'[c] # api[c] =>
         /\ OnDeckOfOtherUser(c) =>
              /\ decks' = decks
              /\ api'[c].pc = "sent"
              /\ api'[c].status \in {FORBIDDEN, INTERNAL_SERVER_ERROR}
              /\ DeckLookupSucceeds(c) => api'[c].status = FORBIDDEN
         /\ \A d \in DOMAIN decks :
              (decks[d] # DbNull /\ decks'[d] # decks[d]) =>
                 decks[d].userId = api[c].req.userId.n
         /\ AnswersWithDeck(c) => api'[c].body.userId = api[c].req.userId.n
         /\ AnswersWithDecks(c) =>
              \A i \in DOMAIN api'[c].body.a :
                 api'[c].body.a[i].userId = api[c].req.userId.n]_vars

\* a request on a deck of another user was answered 403 and both decks are as
\* they were stored
C31_Witness ==
  /\ \E c \in Clients : api[c].pc = "sent" /\ api[c].status = FORBIDDEN
  /\ decks = ApiDecks

\* ------------------------------------------------------------------------
\* Auth requests: two HTTP clients sign up and sign in; ash is registered
\* ------------------------------------------------------------------------
MistyEmail == <<"m", "@", "x", ".", "i", "o">>
NoAtEmail == <<"a", "x", ".", "i", "o">>
OtherPassword == <<"p", "i", "k", "a", "1", "3">>
ShortPassword == <<"p", "w">>

AuthEmails == {JSUndefined, Chars(AshEmail), Chars(MistyEmail), Chars(NoAtEmail)}
AuthUsernames == {JSUndefined, JSStr("ash"), JSStr("misty")}
AuthPasswords == {JSUndefined, Chars(AshPassword), Chars(OtherPassword), Chars(ShortPassword)}

NextUsers ==
  \/ \E c \in Clients, email \in AuthEmails, username \in AuthUsernames,
        password \in AuthPasswords : SignUp(c, email, username, password)
  \/ \E c \in Clients, dbFails \in BOOLEAN : SignUpResumeEmail(c, dbFails)
  \/ \E c \in Clients, dbFails \in BOOLEAN : SignUpResumeUsername(c, dbFails)
  \/ \E c \in Clients : SignUpResumeHash(c)
  \/ \E c \in Clients, dbFails \in BOOLEAN : SignUpResumeCreate(c, dbFails)
  \/ \E c \in Clients, email \in AuthEmails, password \in AuthPasswords :
       SignIn(c, email, password)
  \/ \E c \in Clients, dbFails \in BOOLEAN : SignInResumeFind(c, dbFails)
  \/ \E c \in Clients : SignInResumeCompare(c)

SpecUsers == Init /\ [][NextUsers]_vars

\* C32: a signIn request is answered 401 with one and the same body when no
\* user has its email and when the user exists but the password is wrong, and
\* neither a 200 answer of signIn nor a 201 answer of signUp holds a password
\* field.
SignInRefusal ==
  [status |-> UNAUTHORIZED,
   body |-> ErrorBody("Unauthorized", "Email ou mot de passe incorrect")]

Answer(c) == [status |-> api'[c].status, body |-> api'[c].body]

HoldsNoPassword(body) ==
  /\ "password" \notin DOMAIN body
  /\ "password" \notin DOMAIN body.user

SignInAnswered(c) ==
  /\ api[c].pc \in {"findUser", "compare"}
  /\ api'[c].pc = "sent"
  /\ api'[c].status # INTERNAL_SERVER_ERROR

SignUpSucceeded(c) ==
  /\ api[c].pc = "createUser"
  /\ api'[c].pc = "sent"
  /\ api'[c].status = CREATED

C32_SignInTellsNothing ==
  [][\A c \in Clients :
       /\ SignInAnswered(c) =>
            LET user == findUserByEmail(api[c].req.email.c)
            IN IF user = DbNull \/ ~bcryptCompare(api[c].req.password.c, user.password)
                 THEN Answer(c) = SignInRefusal
                 ELSE api'[c].status = OK /\ HoldsNoPassword(api'[c].body)
       /\ SignUpSucceeded(c) => HoldsNoPassword(api'[c].body)]_vars

\* c1 was refused for an email nobody has, c2 for a wrong password of a
\* registered user, and both hold the same answer
C32_Witness ==
  /\ \A c \in Clients :
       /\ api[c].pc = "sent"
       /\ api[c].status = UNAUTHORIZED
       /\ api[c].req.op = "signIn"
  /\ findUserByEmail(api["c1"].req.email.c) = DbNull
  /\ findUserByEmail(api["c2"].req.email.c) # DbNull
  /\ ~bcryptCompare(api["c2"].req.password.c,
                    findUserByEmail(api["c2"].req.email.c).password)
  /\ api["c1"].body = api["c2"].body

====
